---- MODULE Spec2Model ----
(***************************************************************************)
(* LockPort: PIN-gated access control over removable storage devices.      *)
(*                                                                         *)
(* The module models                                                       *)
(*   - the credential store (lockport/pin_store.py, PinManager),           *)
(*   - the device state ledger (lockport/device_state.py),                 *)
(*   - the orchestrator's event pipeline (lockport/service.py),            *)
(*   - the device window's manual lock / unlock handlers                   *)
(*     (lockport/device_window.py).                                        *)
(*                                                                         *)
(* PINs are sequences of one-character strings, so that str.isdigit() and  *)
(* len() are computed on them.  PBKDF2 is modelled symbolically: the       *)
(* derived key is the term <<"pbkdf2", pin, salt, iterations>>, i.e. two   *)
(* derivations agree exactly when pin, salt and iteration count agree.     *)
(***************************************************************************)
EXTENDS Integers, Sequences, FiniteSets, TLC

(***************************************************************************)
(* Bounds of the model                                                     *)
(***************************************************************************)
MaxTime == 3
MaxLimit == 2
MaxLockout == 2
MaxEvents == 1
MaxWindowSteps == 2
MaxStoreCalls == 3
MaxServiceEvents == 3
MaxBurst == 66
MaxRaceEvents == 2
MaxStopEvents == 2
MaxAge == 1
MaxPinCalls == 3

(***************************************************************************)
(* Program constants                                                       *)
(***************************************************************************)
PinHashIterations == 100000
MinPinLen == 4
MaxPinLen == 8
RECENT_UNLOCK_SECONDS == 10
QueueMaxsize == 64
WorkerCount == 2

VARIABLES
    now,            \* time.time(), whole seconds
    config,         \* LockPortConfig: pin_attempt_limit, pin_lockout_seconds
    pin_file,       \* content of pin_store.json
    op,             \* the call made by the last step and its outcome
    before,         \* history: the stored record and the PIN in force before that call
    last_set,       \* history: the PIN of the last successful set_pin ("0000" at first)
    streak,         \* history: consecutive mismatching verify_pin calls
    last_fail_at,   \* history: the time of the last mismatching verify_pin call
    ledger_file,    \* content of device_states.json
    svc_cache,      \* DeviceStateStore._cache of the service's store
    win_cache,      \* DeviceStateStore._cache of the device window's store
    event_queue,    \* LockPortService._event_queue
    active_devices, \* LockPortService._active_devices
    pc,             \* position of each worker thread in _worker_loop
    event,          \* the event each worker thread is processing
    delivered,      \* number of events the monitor has notified so far
    window_steps,   \* number of handlers the device window has run so far
    store_op,       \* the last direct call on a DeviceStateStore and its arguments
    store_calls,    \* number of direct calls on a DeviceStateStore so far
    store_hist,     \* history: the arguments of the last upsert for each id, the
                    \* stores that have written, whether a write has failed
    stop_event,     \* LockPortService._stop_event
    stop_pc,        \* position of the thread that calls LockPortService.stop
    monitor_pc,     \* the USBMonitor thread: running, stopping (its stop event
                    \* is set, its last iteration is not over), stopped
    pushed,         \* number of sentinels _shutdown_workers has put so far
    win32crypt,     \* whether the import of win32crypt succeeded
    pin_cache,      \* content of the PIN cache file
    cache_hist,     \* history: the cache entry written last since the last
                    \* successful set_pin, the max age of the last retrieval
    pin_threads,    \* the threads calling one PinManager: position, arguments,
                    \* the record read
    conc_hist,      \* history of those calls
    lock_owner,     \* the thread holding each lock and how many times
    lock_trace      \* the lock operations each thread has still to do

storeVars == <<store_op, store_calls, store_hist>>

stopVars == <<stop_event, stop_pc, monitor_pc, pushed>>

cacheVars == <<win32crypt, pin_cache, cache_hist>>

tailVars == <<pin_threads, conc_hist, lock_owner, lock_trace>>

sysVars == <<ledger_file, svc_cache, win_cache, event_queue, active_devices,
             pc, event, delivered, window_steps, storeVars, stopVars, tailVars>>

(***************************************************************************)
(* PIN strings                                                             *)
(***************************************************************************)
Digits == {"0", "1", "2", "3", "4", "5", "6", "7", "8", "9"}

DefaultPin == <<"0", "0", "0", "0">>
Pin1234 == <<"1", "2", "3", "4">>
Pin8 == <<"1", "2", "3", "4", "5", "6", "7", "8">>
PinEmpty == <<>>
PinShort == <<"1", "2", "3">>
PinLong == <<"1", "2", "3", "4", "5", "6", "7", "8", "9">>
PinAlpha == <<"1", "2", "a", "4">>

\* the PIN strings callers present
Candidates == {DefaultPin, Pin1234, Pin8, PinEmpty, PinShort, PinLong, PinAlpha}

\* current_pin=None, and "no PIN" in a call that takes none
None == <<"None">>
NoId == "-"
Salts == {"s1", "s2"}

\* the values set_pin's callers pass as current_pin
CurrentPins == {None, DefaultPin, PinAlpha}

\* str.isdigit(): at least one character and every character a digit
isdigit(s) == Len(s) > 0 /\ \A i \in 1..Len(s) : s[i] \in Digits

\* the shape test of set_pin
WellFormed(pin) == isdigit(pin) /\ MinPinLen <= Len(pin) /\ Len(pin) <= MaxPinLen

(***************************************************************************)
(* PinStoreRecord                                                          *)
(***************************************************************************)
pbkdf2_hmac(pin, salt, iterations) == <<"pbkdf2", pin, salt, iterations>>

b64encode(bytes) == <<"b64", bytes>>

b64decode(text) == text[2]

PinStoreRecord_from_pin(pin, salt, iterations) ==
    [hash_value |-> b64encode(pbkdf2_hmac(pin, salt, iterations)),
     salt |-> b64encode(salt),
     iterations |-> iterations]

\* variant: only the first four characters of the candidate are hashed
PinStoreRecord_verify_truncated(record, pin) ==
    LET salt_bytes == b64decode(record.salt)
        expected_hash == b64decode(record.hash_value)
        head == IF Len(pin) > 4 THEN SubSeq(pin, 1, 4) ELSE pin
        test_hash == pbkdf2_hmac(head, salt_bytes, record.iterations)
    IN  expected_hash = test_hash

PinStoreRecord_verify(record, pin) ==
    LET salt_bytes == b64decode(record.salt)
        expected_hash == b64decode(record.hash_value)
        test_hash == pbkdf2_hmac(pin, salt_bytes, record.iterations)
    IN  expected_hash = test_hash

(***************************************************************************)
(* PinManager                                                              *)
(***************************************************************************)
\* variant: the store is initialized with another PIN than "0000"
initialize_store_other_pin(salt, t) ==
    [pin |-> PinStoreRecord_from_pin(Pin1234, salt, PinHashIterations),
     failed_attempts |-> 0,
     lock_until |-> 0,
     updated_at |-> t]

initialize_store(salt, t) ==
    [pin |-> PinStoreRecord_from_pin(DefaultPin, salt, PinHashIterations),
     failed_attempts |-> 0,
     lock_until |-> 0,
     updated_at |-> t]

\* variant: the hash is compared before the lockout deadline is looked at
verify_pin_match_first(data, candidate, t, cfg) ==
    IF PinStoreRecord_verify(data.pin, candidate)
    THEN [result |-> "ok",
          data |-> [data EXCEPT !.failed_attempts = 0,
                                !.lock_until = 0,
                                !.updated_at = t]]
    ELSE IF data.lock_until > t
    THEN [result |-> "PinLockedError", data |-> data]
    ELSE LET attempts == data.failed_attempts + 1
         IN  [result |-> "PinValidationError",
              data |-> IF attempts >= cfg.pin_attempt_limit
                       THEN [data EXCEPT !.lock_until = t + cfg.pin_lockout_seconds,
                                         !.failed_attempts = 0]
                       ELSE [data EXCEPT !.failed_attempts = attempts]]

\* variant: a call refused by the lockout is still counted
verify_pin_locked_counts(data, candidate, t, cfg) ==
    IF data.lock_until > t
    THEN [result |-> "PinLockedError",
          data |-> [data EXCEPT !.failed_attempts = data.failed_attempts + 1]]
    ELSE IF PinStoreRecord_verify(data.pin, candidate)
    THEN [result |-> "ok",
          data |-> [data EXCEPT !.failed_attempts = 0,
                                !.lock_until = 0,
                                !.updated_at = t]]
    ELSE LET attempts == data.failed_attempts + 1
         IN  [result |-> "PinValidationError",
              data |-> IF attempts >= cfg.pin_attempt_limit
                       THEN [data EXCEPT !.lock_until = t + cfg.pin_lockout_seconds,
                                         !.failed_attempts = 0]
                       ELSE [data EXCEPT !.failed_attempts = attempts]]

\* variant: the limit is compared with > instead of >=
verify_pin_off_by_one(data, candidate, t, cfg) ==
    IF data.lock_until > t
    THEN [result |-> "PinLockedError", data |-> data]
    ELSE IF PinStoreRecord_verify(data.pin, candidate)
    THEN [result |-> "ok",
          data |-> [data EXCEPT !.failed_attempts = 0,
                                !.lock_until = 0,
                                !.updated_at = t]]
    ELSE LET attempts == data.failed_attempts + 1
         IN  [result |-> "PinValidationError",
              data |-> IF attempts > cfg.pin_attempt_limit
                       THEN [data EXCEPT !.lock_until = t + cfg.pin_lockout_seconds,
                                         !.failed_attempts = 0]
                       ELSE [data EXCEPT !.failed_attempts = attempts]]

\* variant: a success clears the counter but leaves the old deadline
verify_pin_keeps_deadline(data, candidate, t, cfg) ==
    IF data.lock_until > t
    THEN [result |-> "PinLockedError", data |-> data]
    ELSE IF PinStoreRecord_verify(data.pin, candidate)
    THEN [result |-> "ok",
          data |-> [data EXCEPT !.failed_attempts = 0,
                                !.updated_at = t]]
    ELSE LET attempts == data.failed_attempts + 1
         IN  [result |-> "PinValidationError",
              data |-> IF attempts >= cfg.pin_attempt_limit
                       THEN [data EXCEPT !.lock_until = t + cfg.pin_lockout_seconds,
                                         !.failed_attempts = 0]
                       ELSE [data EXCEPT !.failed_attempts = attempts]]

\* variant: every mismatch starts a lockout
verify_pin_locks_at_once(data, candidate, t, cfg) ==
    IF data.lock_until > t
    THEN [result |-> "PinLockedError", data |-> data]
    ELSE IF PinStoreRecord_verify(data.pin, candidate)
    THEN [result |-> "ok",
          data |-> [data EXCEPT !.failed_attempts = 0,
                                !.lock_until = 0,
                                !.updated_at = t]]
    ELSE [result |-> "PinValidationError",
          data |-> [data EXCEPT !.lock_until = t + cfg.pin_lockout_seconds,
                                !.failed_attempts = 0]]

\* variant: the counter is not reset when the lockout starts
verify_pin_counter_kept(data, candidate, t, cfg) ==
    IF data.lock_until > t
    THEN [result |-> "PinLockedError", data |-> data]
    ELSE IF PinStoreRecord_verify(data.pin, candidate)
    THEN [result |-> "ok",
          data |-> [data EXCEPT !.failed_attempts = 0,
                                !.lock_until = 0,
                                !.updated_at = t]]
    ELSE LET attempts == data.failed_attempts + 1
         IN  [result |-> "PinValidationError",
              data |-> IF attempts >= cfg.pin_attempt_limit
                       THEN [data EXCEPT !.lock_until = t + cfg.pin_lockout_seconds,
                                         !.failed_attempts = attempts]
                       ELSE [data EXCEPT !.failed_attempts = attempts]]

\* verify_pin as a function of the record read, the candidate and the clock:
\* the outcome and the record the store holds afterwards
verify_pin_outcome(data, candidate, t, cfg) ==
    IF data.lock_until > t
    THEN [result |-> "PinLockedError", data |-> data]
    ELSE IF PinStoreRecord_verify(data.pin, candidate)
    THEN [result |-> "ok",
          data |-> [data EXCEPT !.failed_attempts = 0,
                                !.lock_until = 0,
                                !.updated_at = t]]
    ELSE LET attempts == data.failed_attempts + 1
         IN  [result |-> "PinValidationError",
              data |-> IF attempts >= cfg.pin_attempt_limit
                       THEN [data EXCEPT !.lock_until = t + cfg.pin_lockout_seconds,
                                         !.failed_attempts = 0]
                       ELSE [data EXCEPT !.failed_attempts = attempts]]

\* variant: the lockout deadline is not cleared by a PIN change
set_pin_keeps_deadline(data, new_pin, current_pin, salt, t, cfg) ==
    IF ~ WellFormed(new_pin)
    THEN [result |-> "ValueError", data |-> data]
    ELSE LET checked == IF current_pin # None
                        THEN verify_pin_outcome(data, current_pin, t, cfg)
                        ELSE [result |-> "ok", data |-> data]
         IN  IF checked.result # "ok"
             THEN [result |-> "PinValidationError", data |-> checked.data]
             ELSE [result |-> "ok",
                   data |-> [checked.data EXCEPT
                                !.pin = PinStoreRecord_from_pin(new_pin, salt, PinHashIterations),
                                !.updated_at = t,
                                !.failed_attempts = 0]]

\* variant: only PinValidationError is caught around the current-PIN check
set_pin_lock_escapes(data, new_pin, current_pin, salt, t, cfg) ==
    IF ~ WellFormed(new_pin)
    THEN [result |-> "ValueError", data |-> data]
    ELSE LET checked == IF current_pin # None
                        THEN verify_pin_outcome(data, current_pin, t, cfg)
                        ELSE [result |-> "ok", data |-> data]
         IN  IF checked.result # "ok"
             THEN [result |-> checked.result, data |-> checked.data]
             ELSE [result |-> "ok",
                   data |-> [checked.data EXCEPT
                                !.pin = PinStoreRecord_from_pin(new_pin, salt, PinHashIterations),
                                !.updated_at = t,
                                !.failed_attempts = 0,
                                !.lock_until = 0]]

\* variant: the shape of the new PIN is tested after the current PIN
set_pin_shape_last(data, new_pin, current_pin, salt, t, cfg) ==
    LET checked == IF current_pin # None
                   THEN verify_pin_outcome(data, current_pin, t, cfg)
                   ELSE [result |-> "ok", data |-> data]
    IN  IF checked.result # "ok"
        THEN [result |-> "PinValidationError", data |-> checked.data]
        ELSE IF ~ WellFormed(new_pin)
        THEN [result |-> "ValueError", data |-> checked.data]
        ELSE [result |-> "ok",
              data |-> [checked.data EXCEPT
                           !.pin = PinStoreRecord_from_pin(new_pin, salt, PinHashIterations),
                           !.updated_at = t,
                           !.failed_attempts = 0,
                           !.lock_until = 0]]

\* set_pin likewise; salt is the value secrets.token_bytes returns
set_pin_outcome(data, new_pin, current_pin, salt, t, cfg) ==
    IF ~ WellFormed(new_pin)
    THEN [result |-> "ValueError", data |-> data]
    ELSE LET checked == IF current_pin # None
                        THEN verify_pin_outcome(data, current_pin, t, cfg)
                        ELSE [result |-> "ok", data |-> data]
         IN  IF checked.result # "ok"
             THEN [result |-> "PinValidationError", data |-> checked.data]
             ELSE [result |-> "ok",
                   data |-> [checked.data EXCEPT
                                !.pin = PinStoreRecord_from_pin(new_pin, salt, PinHashIterations),
                                !.updated_at = t,
                                !.failed_attempts = 0,
                                !.lock_until = 0]]

\* variant: only the deadline is cleared
reset_lockout_keeps_counter(data) ==
    [data EXCEPT !.lock_until = 0]

reset_lockout_outcome(data) ==
    [data EXCEPT !.failed_attempts = 0, !.lock_until = 0]

\* variant: the deadline itself still counts as locked
get_status_deadline_inclusive(data, t) ==
    [failed_attempts |-> data.failed_attempts,
     lock_until |-> data.lock_until,
     locked |-> data.lock_until >= t,
     updated_at |-> data.updated_at]

get_status_outcome(data, t) ==
    [failed_attempts |-> data.failed_attempts,
     lock_until |-> data.lock_until,
     locked |-> data.lock_until > t,
     updated_at |-> data.updated_at]

\* the call a step makes: the PIN arguments, the device it is about, the
\* outcome, and the toggle calls it makes, in order: toggle is the kind of the
\* first one ("none" when there is none), toggled whether each succeeded,
\* messages what each reported; synthetic is the flag of the event the step
\* is about (FALSE when it is about none)
Step(name, pin, cur, id, result, calls) ==
    [name |-> name, pin |-> pin, cur |-> cur, id |-> id, result |-> result,
     synthetic |-> FALSE,
     toggle |-> IF calls = <<>> THEN "none" ELSE calls[1].kind,
     toggled |-> [i \in 1..Len(calls) |-> calls[i].ok],
     messages |-> [i \in 1..Len(calls) |-> calls[i].message]]

Call(name, pin, cur, id, result) == Step(name, pin, cur, id, result, <<>>)

\* ---- threads calling PinManager on the same store file ----
\* the device window's thread (verify_pin) and the command line (set_pin,
\* reset_lockout).  _read and _write each take PinManager._lock for their
\* own duration only: between the _read and the _write of a call the lock
\* is free.  A thread inside a call has read the record and has still to
\* write it.
PinThreads == {"window", "cli"}

IdleThread == [pc |-> "idle", pin |-> None, data |-> <<>>, at |-> 0]

\* ---- history of the caller's view (not program state) ----
\* streak counts the consecutive verify_pin calls that ended in a mismatch;
\* it starts again after a success, a PIN change, a reset, or a lockout
StreakAfter(result, attempted) ==
    IF ~ attempted THEN streak
    ELSE IF result = "ok" THEN 0
    ELSE IF result = "PinValidationError"
         THEN (streak % config.pin_attempt_limit) + 1
    ELSE streak

Snapshot == [data |-> pin_file, last_set |-> last_set]

\* ---- the PIN cache (pin_cache.json) ----
NoCache == [exists |-> FALSE, ts |-> 0, blob |-> <<>>]

\* get_cached_pin's default max_age_seconds
DefaultMaxAge == 120

\* the max ages a caller passes
MaxAges == (0..MaxAge) \cup {DefaultMaxAge}

\* win32crypt.CryptProtectData and CryptUnprotectData
CryptProtectData(pin) == <<"dpapi", pin>>

CryptUnprotectData(blob) == blob[2]

\* the I/O and DPAPI outcomes a cache operation can meet: none when
\* win32crypt is not available, since the cache is then never written
CacheOutcomes(crypt) == IF crypt THEN BOOLEAN ELSE {TRUE}

\* _cache_last_pin: nothing without win32crypt; a failure of CryptProtectData
\* or of write_text is logged and the file is left as it was
cache_last_pin(crypt, cache, pin, t, write_ok) ==
    IF ~ crypt THEN cache
    ELSE IF ~ write_ok THEN cache
    ELSE [exists |-> TRUE, ts |-> t, blob |-> CryptProtectData(pin)]

\* _clear_cached_pin: the file is unlinked when it exists; an OSError of
\* unlink is logged and the file stays
clear_cached_pin(cache, unlink_ok) ==
    IF cache.exists /\ unlink_ok THEN NoCache ELSE cache

\* get_cached_pin as a function of the cache file, the clock and the outcome
\* of CryptUnprotectData
get_cached_pin_outcome(crypt, cache, t, max_age, decrypt_ok) ==
    IF ~ crypt THEN None
    ELSE IF ~ cache.exists THEN None
    ELSE IF t - cache.ts > max_age THEN None
    ELSE IF ~ decrypt_ok THEN None
    ELSE CryptUnprotectData(cache.blob)

\* history: the last entry a successful verify_pin has written to the cache
\* since the last successful set_pin, if any
NothingCached == [written |-> FALSE, pin |-> None, ts |-> 0, max_age |-> 0]

Cached(pin, t) == [cache_hist EXCEPT !.written = TRUE, !.pin = pin, !.ts = t]

verify_pin(candidate) ==
    \E write_ok \in CacheOutcomes(win32crypt) :
    LET out == verify_pin_outcome(pin_file, candidate, now, config)
    IN  /\ pin_file' = out.data
        /\ pin_cache' = IF out.result = "ok"
                        THEN cache_last_pin(win32crypt, pin_cache, candidate, now, write_ok)
                        ELSE pin_cache
        /\ cache_hist' = IF out.result = "ok" /\ win32crypt /\ write_ok
                         THEN Cached(candidate, now) ELSE cache_hist
        /\ op' = Call("verify_pin", candidate, None, NoId, out.result)
        /\ before' = Snapshot
        /\ streak' = StreakAfter(out.result, TRUE)
        /\ last_fail_at' = IF out.result = "PinValidationError" THEN now ELSE last_fail_at
        /\ UNCHANGED <<now, config, last_set, win32crypt, sysVars>>

set_pin(new_pin, current_pin) ==
    \E salt \in Salts, write_ok \in CacheOutcomes(win32crypt),
       unlink_ok \in CacheOutcomes(win32crypt) :
        LET out == set_pin_outcome(pin_file, new_pin, current_pin, salt, now, config)
            \* the inner verify_pin call, when set_pin makes one
            inner == WellFormed(new_pin) /\ current_pin # None
            innerResult == IF inner
                           THEN verify_pin_outcome(pin_file, current_pin, now, config).result
                           ELSE "none"
            \* the cache after the inner verify_pin call
            checked == IF innerResult = "ok"
                       THEN cache_last_pin(win32crypt, pin_cache, current_pin, now, write_ok)
                       ELSE pin_cache
        IN  /\ pin_file' = out.data
            /\ pin_cache' = IF out.result = "ok"
                            THEN clear_cached_pin(checked, unlink_ok)
                            ELSE checked
            /\ cache_hist' = IF out.result = "ok"
                             THEN [NothingCached EXCEPT !.max_age = cache_hist.max_age]
                             ELSE cache_hist
            /\ op' = Call("set_pin", new_pin, current_pin, NoId, out.result)
            /\ before' = Snapshot
            /\ streak' = IF out.result = "ok" THEN 0 ELSE StreakAfter(innerResult, inner)
            /\ last_fail_at' = IF innerResult = "PinValidationError" THEN now ELSE last_fail_at
            /\ last_set' = IF out.result = "ok" THEN new_pin ELSE last_set
            /\ UNCHANGED <<now, config, win32crypt, sysVars>>

reset_lockout ==
    /\ pin_file' = reset_lockout_outcome(pin_file)
    /\ op' = Call("reset_lockout", None, None, NoId, "ok")
    /\ before' = Snapshot
    /\ streak' = 0
    /\ UNCHANGED <<now, config, last_set, last_fail_at, cacheVars, sysVars>>

get_status ==
    /\ op' = Call("get_status", None, None, NoId,
                  IF get_status_outcome(pin_file, now).locked THEN "locked" ELSE "open")
    /\ before' = Snapshot
    /\ UNCHANGED <<now, config, pin_file, cacheVars, last_set, streak, last_fail_at, sysVars>>

\* history common to the steps of the threads
ThreadCall(name, pin, result) ==
    /\ op' = Call(name, pin, None, NoId, result)
    /\ before' = Snapshot
    /\ UNCHANGED <<now, config, streak, last_fail_at, cacheVars,
                   ledger_file, svc_cache, win_cache, event_queue, active_devices,
                   pc, event, delivered, window_steps, storeVars, stopVars,
                   lock_owner, lock_trace>>

\* the first half of verify_pin, set_pin(new_pin) and reset_lockout:
\* data = self._read(), and now = time.time() in verify_pin
pin_read(t, name, pin) ==
    /\ pin_threads[t].pc = "idle"
    /\ conc_hist.calls < MaxPinCalls
    /\ name = "set_pin" => WellFormed(pin)
    /\ pin_threads' = [pin_threads EXCEPT
                          ![t] = [pc |-> name, pin |-> pin, data |-> pin_file, at |-> now]]
    /\ conc_hist' = [conc_hist EXCEPT
                        !.calls = @ + 1,
                        !.only_wrong = @ /\ name = "verify_pin"
                                         /\ ~ PinStoreRecord_verify(pin_file.pin, pin)]
    /\ ThreadCall("_read", pin, name)
    /\ UNCHANGED <<pin_file, last_set>>

\* the second half of verify_pin: the checks on the record read, then
\* self._write(data) unless the PIN entry is locked
verify_pin_write(t) ==
    LET self == pin_threads[t]
        out == verify_pin_outcome(self.data, self.pin, self.at, config)
    IN  /\ self.pc = "verify_pin"
        /\ pin_file' = IF out.result = "PinLockedError" THEN pin_file ELSE out.data
        /\ pin_threads' = [pin_threads EXCEPT ![t] = IdleThread]
        /\ conc_hist' = [conc_hist EXCEPT
                            !.mismatches = IF out.result = "PinValidationError"
                                           THEN @ + 1 ELSE @]
        /\ ThreadCall("verify_pin", self.pin, out.result)
        /\ UNCHANGED last_set

\* the second half of set_pin(new_pin): the new hash and the cleared
\* counters go into the record read, then self._write(payload)
set_pin_write(t) ==
    \E salt \in Salts :
        LET self == pin_threads[t]
            out == set_pin_outcome(self.data, self.pin, None, salt, now, config)
        IN  /\ self.pc = "set_pin"
            /\ pin_file' = out.data
            /\ last_set' = self.pin
            /\ pin_threads' = [pin_threads EXCEPT ![t] = IdleThread]
            /\ UNCHANGED conc_hist
            /\ ThreadCall("set_pin", self.pin, out.result)

\* the second half of reset_lockout
reset_lockout_write(t) ==
    LET self == pin_threads[t]
    IN  /\ self.pc = "reset_lockout"
        /\ pin_file' = reset_lockout_outcome(self.data)
        /\ pin_threads' = [pin_threads EXCEPT ![t] = IdleThread]
        /\ UNCHANGED <<conc_hist, last_set>>
        /\ ThreadCall("reset_lockout", None, "ok")

get_cached_pin ==
    \E max_age \in MaxAges, decrypt_ok \in CacheOutcomes(win32crypt) :
        LET pin == get_cached_pin_outcome(win32crypt, pin_cache, now, max_age, decrypt_ok)
        IN  /\ op' = Call("get_cached_pin", pin, None, NoId,
                          IF pin = None THEN "absent" ELSE "returned")
            /\ cache_hist' = [cache_hist EXCEPT !.max_age = max_age]
            /\ before' = Snapshot
            /\ UNCHANGED <<now, config, pin_file, last_set, streak, last_fail_at,
                           win32crypt, pin_cache, sysVars>>

Tick ==
    /\ now < MaxTime
    /\ now' = now + 1
    /\ op' = Call("tick", None, None, NoId, "ok")
    /\ before' = Snapshot
    /\ UNCHANGED <<config, pin_file, cacheVars, last_set, streak, last_fail_at, sysVars>>

(***************************************************************************)
(* DeviceStateStore (device_state.py)                                      *)
(***************************************************************************)
Ids == {"USB1", "USB2"}

\* Python None in an optional string
Null == "<None>"

DeviceState(instance_id, drive, volume, status, updated_at) ==
    [instance_id |-> instance_id, drive |-> drive, volume |-> volume,
     status |-> status, updated_at |-> updated_at]

\* no entry under a key (dict.get returns None)
NoState == DeviceState("", "", "", "absent", 0)

EmptyStore == [id \in Ids |-> NoState]

\* Python's  x or ""
or_empty(x) == IF x = Null \/ x = "" THEN "" ELSE x

\* Python's  x or "unknown"
or_unknown(x) == IF x = Null \/ x = "" THEN "unknown" ELSE x

\* _persist: every cached state, as a dict, replaces the content of the file
persist(cache) == [id \in Ids |-> cache[id]]

\* variant: the drive of an entry is not read back
load_drops_drive(cache, file) ==
    [id \in Ids |->
        IF file[id] = NoState
        THEN cache[id]
        ELSE DeviceState(file[id].instance_id,
                         "",
                         or_empty(file[id].volume),
                         or_unknown(file[id].status),
                         file[id].updated_at)]

\* _load: every entry of the file is put into the cache
load(cache, file) ==
    [id \in Ids |->
        IF file[id] = NoState
        THEN cache[id]
        ELSE DeviceState(file[id].instance_id,
                         or_empty(file[id].drive),
                         or_empty(file[id].volume),
                         or_unknown(file[id].status),
                         file[id].updated_at)]

\* variant: the cache is cleared and nothing is read
reload_reads_nothing(file) == EmptyStore

\* reload: clear the cache, then _load
reload(file) == load(EmptyStore, file)

\* variant: the new state replaces the whole cache
upsert_clears_others(cache, file, instance_id, drive, volume, status, t, write_ok) ==
    LET cached == [EmptyStore EXCEPT ![instance_id] =
                       DeviceState(instance_id, or_empty(drive), or_empty(volume),
                                   status, t)]
    IN  [cache |-> cached,
         file |-> IF write_ok THEN persist(cached) ELSE file]

\* variant: the new state is cached only once the write has succeeded
upsert_write_first(cache, file, instance_id, drive, volume, status, t, write_ok) ==
    LET cached == [cache EXCEPT ![instance_id] =
                       DeviceState(instance_id, or_empty(drive), or_empty(volume),
                                   status, t)]
    IN  [cache |-> IF write_ok THEN cached ELSE cache,
         file |-> IF write_ok THEN persist(cached) ELSE file]

\* upsert: the new state is cached, then the whole cache is written out;
\* write_ok = FALSE is write_text raising OSError
upsert(cache, file, instance_id, drive, volume, status, t, write_ok) ==
    LET cached == [cache EXCEPT ![instance_id] =
                       DeviceState(instance_id, or_empty(drive), or_empty(volume),
                                   status, t)]
    IN  [cache |-> cached,
         file |-> IF write_ok THEN persist(cached) ELSE file]

get(cache, instance_id) ==
    IF instance_id \in DOMAIN cache THEN cache[instance_id] ELSE NoState

(***************************************************************************)
(* DeviceLocker (device_locker.py): the outcome of the OS-level toggle is  *)
(* the environment's choice                                                *)
(***************************************************************************)
DeviceActionResult(success, message) == [success |-> success, message |-> message]

ToggleResults ==
    {DeviceActionResult(TRUE, "Success"),
     DeviceActionResult(FALSE, "DeviceNotFound"),
     DeviceActionResult(FALSE, "Access is denied")}

\* one call of disable or enable and the result it returned
ToggleCall(kind, result) ==
    [kind |-> kind, ok |-> result.success, message |-> result.message]

\* str.lower() on the messages above
lower(message) ==
    CASE message = "Success" -> "success"
      [] message = "DeviceNotFound" -> "devicenotfound"
      [] message = "Access is denied" -> "access is denied"

MissingKeywords == {"devicenotfound", "not connected", "device is not connected"}

\* keyword in text, for the lower-cased messages above
contains(text, keyword) == text = keyword

\* variant: no failure is taken to mean that the device is gone
is_device_missing_never(result) == FALSE

is_device_missing(result) ==
    \E keyword \in MissingKeywords : contains(lower(result.message), keyword)

(***************************************************************************)
(* Two DeviceStateStore instances over one backing file, called directly   *)
(***************************************************************************)
Stores == {"svc", "win"}
cache_of(s) == IF s = "svc" THEN svc_cache ELSE win_cache

\* the arguments callers pass to upsert
Statuses == {"locked", "unlocked", "removed"}
Labels == {<<Null, Null>>, <<"E:", "USB">>}

StoreCall(name, s, instance_id, drive, volume, status, ok) ==
    [name |-> name, store |-> s, instance_id |-> instance_id, drive |-> drive,
     volume |-> volume, status |-> status, ok |-> ok]

NoStoreCall == StoreCall("none", "-", "", Null, Null, "", TRUE)
NoUpsert == [drive |-> Null, volume |-> Null, status |-> "none"]

\* the variables a direct call on a store leaves alone
callerVars == <<now, config, pin_file, cacheVars, op, before, last_set, streak, last_fail_at,
                event_queue, active_devices, pc, event, delivered, window_steps,
                stopVars, tailVars>>

\* store s takes a new cache
SetCache(s, cache) ==
    IF s = "svc"
    THEN svc_cache' = cache /\ UNCHANGED win_cache
    ELSE win_cache' = cache /\ UNCHANGED svc_cache

\* s.upsert(instance_id=..., drive=..., volume=..., status=...)
store_upsert(s, instance_id, drive, volume, status, write_ok) ==
    /\ store_calls < MaxStoreCalls
    /\ store_calls' = store_calls + 1
    /\ LET out == upsert(cache_of(s), ledger_file, instance_id, drive, volume,
                         status, now, write_ok)
       IN  /\ SetCache(s, out.cache)
           /\ ledger_file' = out.file
    /\ store_op' = StoreCall("upsert", s, instance_id, drive, volume, status, write_ok)
    /\ store_hist' =
          [last |-> [store_hist.last EXCEPT ![instance_id] =
                        [drive |-> drive, volume |-> volume, status |-> status]],
           writers |-> store_hist.writers \cup {s},
           failed |-> store_hist.failed \/ ~ write_ok]
    /\ UNCHANGED callerVars

\* s.reload()
store_reload(s) ==
    /\ store_calls < MaxStoreCalls
    /\ store_calls' = store_calls + 1
    /\ SetCache(s, reload(ledger_file))
    /\ store_op' = StoreCall("reload", s, "", Null, Null, "", TRUE)
    /\ UNCHANGED <<ledger_file, store_hist, callerVars>>

\* s = DeviceStateStore(config): a new instance over the same backing file
store_construct(s) ==
    /\ store_calls < MaxStoreCalls
    /\ store_calls' = store_calls + 1
    /\ SetCache(s, load(EmptyStore, ledger_file))
    /\ store_op' = StoreCall("construct", s, "", Null, Null, "", TRUE)
    /\ UNCHANGED <<ledger_file, store_hist, callerVars>>

\* time passes between two calls (the caller is busy: this takes the place
\* of a call)
StoreTick ==
    /\ now < MaxTime
    /\ now' = now + 1
    /\ store_calls < MaxStoreCalls
    /\ store_calls' = store_calls + 1
    /\ store_op' = StoreCall("tick", "-", "", Null, Null, "", TRUE)
    /\ UNCHANGED <<config, pin_file, cacheVars, op, before, last_set, streak, last_fail_at,
                   ledger_file, svc_cache, win_cache, event_queue, active_devices,
                   pc, event, delivered, window_steps, store_hist, stopVars, tailVars>>

(***************************************************************************)
(* USBEvent (usb_monitor.py)                                               *)
(***************************************************************************)
DriveLetter(id) == IF id = "USB1" THEN "E:" ELSE Null
VolumeName(id) == IF id = "USB1" THEN "USB" ELSE Null

USBEvent(instance_id, event_type, synthetic) ==
    [instance_id |-> instance_id,
     drive_letter |-> DriveLetter(instance_id),
     volume_name |-> VolumeName(instance_id),
     event_type |-> event_type,
     synthetic |-> synthetic]

\* what a monitor notifies: arrivals and removals (instance_id "" when it
\* cannot be resolved) and synthetic arrivals of devices already present
MonitorEvents ==
    {USBEvent("USB1", "arrival", FALSE), USBEvent("USB1", "removal", FALSE),
     USBEvent("USB2", "arrival", FALSE), USBEvent("USB1", "arrival", TRUE),
     USBEvent("", "arrival", FALSE), USBEvent("", "removal", FALSE)}

NoEvent == USBEvent("", "none", FALSE)

\* the sentinel _shutdown_workers puts for each worker
StopEvent == USBEvent("", "__stop__", FALSE)

(***************************************************************************)
(* LockPortService (service.py)                                            *)
(***************************************************************************)
Workers == 1..WorkerCount

\* history common to every step outside the credential store
NoPinCall(name, id, result, calls) ==
    /\ op' = Step(name, None, None, id, result, calls)
    /\ before' = Snapshot
    /\ UNCHANGED <<config, pin_file, cacheVars, last_set, streak, last_fail_at, storeVars,
                   stopVars, tailVars>>

\* history common to every step that is about an event
EventCall(name, e, result, calls) ==
    /\ op' = [Step(name, None, None, e.instance_id, result, calls)
                  EXCEPT !.synthetic = e.synthetic]
    /\ before' = Snapshot
    /\ UNCHANGED <<config, pin_file, cacheVars, last_set, streak, last_fail_at, storeVars,
                   stopVars, tailVars>>

\* variant: on a full queue the oldest event makes room for the new one
handle_usb_event_drops_oldest(e, max_events) ==
    /\ delivered < max_events
    /\ monitor_pc # "stopped"
    /\ delivered' = delivered + 1
    /\ event_queue' = IF Len(event_queue) >= QueueMaxsize
                      THEN Append(Tail(event_queue), e)
                      ELSE Append(event_queue, e)
    /\ EventCall("handle_usb_event", e,
                 IF Len(event_queue) >= QueueMaxsize THEN "dropped" ELSE "queued",
                 <<>>)
    /\ UNCHANGED <<now, ledger_file, svc_cache, win_cache, active_devices, pc, event,
                   window_steps>>

\* the monitor's callback, called from the monitor thread while it is alive;
\* the monitor notifies at most max_events events
handle_usb_event(e, max_events) ==
    /\ delivered < max_events
    /\ monitor_pc # "stopped"
    /\ delivered' = delivered + 1
    /\ event_queue' = IF Len(event_queue) >= QueueMaxsize
                      THEN event_queue
                      ELSE Append(event_queue, e)
    /\ EventCall("handle_usb_event", e,
                 IF Len(event_queue) >= QueueMaxsize THEN "dropped" ELSE "queued",
                 <<>>)
    /\ UNCHANGED <<now, ledger_file, svc_cache, win_cache, active_devices, pc, event,
                   window_steps>>

\* the test of the while loop of _worker_loop, made when the processing of
\* an event is over: the thread leaves the loop once the stop event is set
loop_check(stop) == IF stop THEN "exited" ELSE "get"

\* _worker_loop: take the next item off the queue; the sentinel ends the loop
worker_loop(w) ==
    /\ pc[w] = "get"
    /\ event_queue # <<>>
    /\ event_queue' = Tail(event_queue)
    /\ IF Head(event_queue).event_type = "__stop__"
       THEN /\ pc' = [pc EXCEPT ![w] = "exited"]
            /\ UNCHANGED event
       ELSE /\ pc' = [pc EXCEPT ![w] = "process_event"]
            /\ event' = [event EXCEPT ![w] = Head(event_queue)]
    /\ EventCall("worker_loop", Head(event_queue),
                 IF Head(event_queue).event_type = "__stop__" THEN "stop" ELSE "got",
                 <<>>)
    /\ UNCHANGED <<now, ledger_file, svc_cache, win_cache, active_devices, delivered, window_steps>>

\* _worker_loop: get(timeout=0.5) raises queue.Empty on an empty queue and the
\* loop test is made again; a step only when the stop event is set
worker_loop_empty(w) ==
    /\ pc[w] = "get"
    /\ event_queue = <<>>
    /\ stop_event
    /\ pc' = [pc EXCEPT ![w] = loop_check(stop_event)]
    /\ EventCall("worker_loop_empty", NoEvent, "Empty", <<>>)
    /\ UNCHANGED <<now, ledger_file, svc_cache, win_cache, event_queue, active_devices,
                   event, delivered, window_steps>>

\* the arrival is an echo of a recent unlock, or a synthetic one for an
\* unlocked device
SkipsRelock(state, e, t) ==
    /\ state # NoState
    /\ state.status = "unlocked"
    /\ (t - state.updated_at < RECENT_UNLOCK_SECONDS \/ e.synthetic)

\* variant: only a synthetic arrival is skipped
process_event_synthetic_only(state, e, t, active) ==
    IF e.instance_id = "" THEN "no instance id"
    ELSE IF e.event_type = "removal" THEN "removal"
    ELSE IF state # NoState /\ state.status = "unlocked" /\ e.synthetic
    THEN "synthetic"
    ELSE IF e.instance_id \in active THEN "already processing"
    ELSE "inserted"

\* variant: the active set is not consulted
process_event_no_active_check(state, e, t, active) ==
    IF e.instance_id = "" THEN "no instance id"
    ELSE IF e.event_type = "removal" THEN "removal"
    ELSE IF SkipsRelock(state, e, t)
    THEN IF t - state.updated_at < RECENT_UNLOCK_SECONDS
         THEN "recently unlocked"
         ELSE "synthetic"
    ELSE "inserted"

\* variant: the instance id is looked at only for a removal
process_event_id_unchecked(state, e, t, active) ==
    IF e.event_type = "removal"
    THEN IF e.instance_id = "" THEN "no instance id" ELSE "removal"
    ELSE IF SkipsRelock(state, e, t)
    THEN IF t - state.updated_at < RECENT_UNLOCK_SECONDS
         THEN "recently unlocked"
         ELSE "synthetic"
    ELSE IF e.instance_id \in active THEN "already processing"
    ELSE "inserted"

\* the branch _process_event takes, in the order of its tests; state is what
\* the service's store holds for the device, active the active set
process_event_outcome(state, e, t, active) ==
    IF e.instance_id = "" THEN "no instance id"
    ELSE IF e.event_type = "removal" THEN "removal"
    ELSE IF SkipsRelock(state, e, t)
    THEN IF t - state.updated_at < RECENT_UNLOCK_SECONDS
         THEN "recently unlocked"
         ELSE "synthetic"
    ELSE IF e.instance_id \in active THEN "already processing"
    ELSE "inserted"

\* _process_event up to the call of _process_usb_event; for a removal, up
\* to the end of the first statement of _handle_usb_removal
process_event(w) ==
    LET e == event[w]
        id == e.instance_id
        result == process_event_outcome(get(svc_cache, id), e, now, active_devices)
    IN  /\ pc[w] = "process_event"
        /\ EventCall("process_event", e, result, <<>>)
        /\ IF result = "removal"
           THEN /\ active_devices' = active_devices \ {id}
                /\ pc' = [pc EXCEPT ![w] = "handle_usb_removal"]
                /\ UNCHANGED event
           ELSE IF result = "inserted"
           THEN /\ active_devices' = active_devices \cup {id}
                /\ pc' = [pc EXCEPT ![w] = "process_usb_event"]
                /\ UNCHANGED event
           ELSE /\ pc' = [pc EXCEPT ![w] = loop_check(stop_event)]
                /\ event' = [event EXCEPT ![w] = NoEvent]
                /\ UNCHANGED active_devices
        /\ UNCHANGED <<now, ledger_file, svc_cache, win_cache, event_queue, delivered,
                       window_steps>>

\* _record_device_state: an OSError of the write is logged and swallowed
record_device_state(cache, file, instance_id, drive, volume, status, t, write_ok) ==
    upsert(cache, file, instance_id, drive, volume, status, t, write_ok)

\* variant: the status is recorded only when disable succeeded
process_usb_event_unrecorded_failure(cache, file, e, lock_result, t, write_ok) ==
    LET out == record_device_state(cache, file, e.instance_id, e.drive_letter,
                                   e.volume_name, "locked", t, write_ok)
    IN  [calls |-> <<ToggleCall("disable", lock_result)>>,
         cache |-> IF lock_result.success THEN out.cache ELSE cache,
         file |-> IF lock_result.success THEN out.file ELSE file]

\* _process_usb_event, as a function: one disable call, then
\* _record_device_state(status="locked") on the service's store
process_usb_event_outcome(cache, file, e, lock_result, t, write_ok) ==
    LET out == record_device_state(cache, file, e.instance_id, e.drive_letter,
                                   e.volume_name, "locked", t, write_ok)
    IN  [calls |-> <<ToggleCall("disable", lock_result)>>,
         cache |-> out.cache,
         file |-> out.file]

\* variant: the id leaves the active set only when disable succeeded
process_usb_event_no_finally(w) ==
    /\ pc[w] = "process_usb_event"
    /\ \E lock_result \in ToggleResults, write_ok \in BOOLEAN :
           LET e == event[w]
               out == process_usb_event_outcome(svc_cache, ledger_file, e,
                                                lock_result, now, write_ok)
           IN  /\ svc_cache' = out.cache
               /\ ledger_file' = out.file
               /\ EventCall("process_usb_event", e,
                            IF write_ok THEN "locked" ELSE "OSError", out.calls)
               /\ active_devices' = IF lock_result.success
                                    THEN active_devices \ {e.instance_id}
                                    ELSE active_devices
    /\ pc' = [pc EXCEPT ![w] = loop_check(stop_event)]
    /\ event' = [event EXCEPT ![w] = NoEvent]
    /\ UNCHANGED <<now, win_cache, event_queue, delivered, window_steps>>

\* _process_usb_event, and the finally block of _process_event after it
process_usb_event(w) ==
    /\ pc[w] = "process_usb_event"
    /\ \E lock_result \in ToggleResults, write_ok \in BOOLEAN :
           LET e == event[w]
               out == process_usb_event_outcome(svc_cache, ledger_file, e,
                                                lock_result, now, write_ok)
           IN  /\ svc_cache' = out.cache
               /\ ledger_file' = out.file
               /\ EventCall("process_usb_event", e,
                            IF write_ok THEN "locked" ELSE "OSError", out.calls)
    /\ active_devices' = active_devices \ {event[w].instance_id}
    /\ pc' = [pc EXCEPT ![w] = loop_check(stop_event)]
    /\ event' = [event EXCEPT ![w] = NoEvent]
    /\ UNCHANGED <<now, win_cache, event_queue, delivered, window_steps>>

\* variant: a device that has no record is not disabled
handle_usb_removal_known_only(cache, file, e, result, t, write_ok) ==
    LET out == record_device_state(cache, file, e.instance_id, e.drive_letter,
                                   e.volume_name, "removed", t, write_ok)
    IN  [calls |-> IF get(cache, e.instance_id) = NoState
                   THEN <<>>
                   ELSE <<ToggleCall("disable", result)>>,
         cache |-> out.cache,
         file |-> out.file]

\* _handle_usb_removal after its first statement, as a function: one disable
\* call, then _record_device_state(status="removed")
handle_usb_removal_outcome(cache, file, e, result, t, write_ok) ==
    LET out == record_device_state(cache, file, e.instance_id, e.drive_letter,
                                   e.volume_name, "removed", t, write_ok)
    IN  [calls |-> <<ToggleCall("disable", result)>>,
         cache |-> out.cache,
         file |-> out.file]

\* _handle_usb_removal after its first statement
handle_usb_removal(w) ==
    /\ pc[w] = "handle_usb_removal"
    /\ \E result \in ToggleResults, write_ok \in BOOLEAN :
           LET e == event[w]
               out == handle_usb_removal_outcome(svc_cache, ledger_file, e,
                                                 result, now, write_ok)
           IN  /\ svc_cache' = out.cache
               /\ ledger_file' = out.file
               /\ EventCall("handle_usb_removal", e,
                            IF write_ok THEN "removed" ELSE "OSError", out.calls)
    /\ pc' = [pc EXCEPT ![w] = loop_check(stop_event)]
    /\ event' = [event EXCEPT ![w] = NoEvent]
    /\ UNCHANGED <<now, win_cache, event_queue, active_devices, delivered, window_steps>>

\* history common to the steps of stop and of the monitor thread's exit
StopCall(name, result) ==
    /\ op' = Step(name, None, None, NoId, result, <<>>)
    /\ before' = Snapshot
    /\ UNCHANGED <<now, config, pin_file, cacheVars, last_set, streak, last_fail_at, storeVars,
                   ledger_file, svc_cache, win_cache, active_devices, pc, event,
                   delivered, window_steps, tailVars>>

\* stop up to the call of _shutdown_workers: the service's stop event is
\* set, then USBMonitor.stop sets the monitor's own and waits for its thread
\* for at most 2 seconds
stop ==
    /\ stop_pc = "idle"
    /\ stop_event' = TRUE
    /\ monitor_pc' = IF monitor_pc = "running" THEN "stopping" ELSE monitor_pc
    /\ stop_pc' = "drain"
    /\ StopCall("stop", "ok")
    /\ UNCHANGED <<event_queue, pushed>>

\* USBMonitor._run_loop: the loop test finds the monitor's stop event set
monitor_exit ==
    /\ monitor_pc = "stopping"
    /\ monitor_pc' = "stopped"
    /\ StopCall("monitor_exit", "ok")
    /\ UNCHANGED <<event_queue, stop_event, stop_pc, pushed>>

\* variant: the queue is not drained
shutdown_drain_skipped ==
    /\ stop_pc = "drain"
    /\ stop_pc' = "put"
    /\ StopCall("shutdown_drain", "empty")
    /\ UNCHANGED <<event_queue, stop_event, monitor_pc, pushed>>

\* _shutdown_workers, one turn of its first loop: an item still queued is
\* taken with get_nowait and dropped; the loop ends on an empty queue
shutdown_drain ==
    /\ stop_pc = "drain"
    /\ IF event_queue = <<>>
       THEN /\ stop_pc' = "put"
            /\ StopCall("shutdown_drain", "empty")
            /\ UNCHANGED event_queue
       ELSE /\ event_queue' = Tail(event_queue)
            /\ StopCall("shutdown_drain", "discarded")
            /\ UNCHANGED stop_pc
    /\ UNCHANGED <<stop_event, monitor_pc, pushed>>

\* _shutdown_workers, one turn of its second loop: a blocking put of the
\* sentinel, one per worker
shutdown_put ==
    /\ stop_pc = "put"
    /\ Len(event_queue) < QueueMaxsize
    /\ event_queue' = Append(event_queue, StopEvent)
    /\ pushed' = pushed + 1
    /\ stop_pc' = IF pushed + 1 = WorkerCount THEN "join" ELSE "put"
    /\ StopCall("shutdown_put", "queued")
    /\ UNCHANGED <<stop_event, monitor_pc>>

\* _shutdown_workers, its third loop: join(timeout=2.0) on each worker
\* returns whether or not the worker has exited; then stop returns
shutdown_join ==
    /\ stop_pc = "join"
    /\ stop_pc' = "done"
    /\ StopCall("shutdown_join",
                IF \A w \in Workers : pc[w] = "exited" THEN "joined" ELSE "timeout")
    /\ UNCHANGED <<event_queue, stop_event, monitor_pc, pushed>>

(***************************************************************************)
(* The device window (device_window.py).  Its handlers run one at a time   *)
(* on the Tk thread; latest_states is refreshed from the store after every *)
(* change of the store's cache, and processing_devices is empty between    *)
(* handlers, so neither is a variable here.  The window's writes of the    *)
(* ledger file are taken to succeed.                                       *)
(***************************************************************************)
\* what the operator types into the PIN entry (after strip())
PinEntries == {DefaultPin, Pin1234, PinEmpty}

\* _update_state, as a function; state is latest_states.get(instance_id)
update_state(instance_id, status) ==
    LET state == get(win_cache, instance_id)
    IN  upsert(win_cache, ledger_file, instance_id,
               IF state # NoState THEN state.drive ELSE Null,
               IF state # NoState THEN state.volume ELSE Null,
               status, now, TRUE)

\* _handle_usb_event on an event of the window's own monitor
window_handle_usb_event(e) ==
    LET id == e.instance_id
        existing_state == get(win_cache, id)
        Ignore(result) ==
            /\ EventCall("window_handle_usb_event", e, result, <<>>)
            /\ UNCHANGED <<win_cache, ledger_file>>
    IN  /\ window_steps < MaxWindowSteps
        /\ window_steps' = window_steps + 1
        /\ IF id = ""
           THEN Ignore("no instance id")
           ELSE IF e.event_type = "arrival"
           THEN \* _handle_arrival
                IF /\ existing_state # NoState
                   /\ existing_state.status = "unlocked"
                   /\ now - existing_state.updated_at < RECENT_UNLOCK_SECONDS
                THEN Ignore("already unlocked")
                ELSE IF e.synthetic
                THEN Ignore("preserved")
                ELSE \E lock_result \in ToggleResults :
                        LET out == upsert(win_cache, ledger_file, id, e.drive_letter,
                                          e.volume_name, "locked", now, TRUE)
                        IN  /\ win_cache' = out.cache
                            /\ ledger_file' = out.file
                            /\ EventCall("window_handle_usb_event", e, "locked",
                                         <<ToggleCall("disable", lock_result)>>)
           ELSE \* _handle_removal
                \E result \in ToggleResults :
                    LET out == upsert(win_cache, ledger_file, id, e.drive_letter,
                                      e.volume_name, "removed", now, TRUE)
                    IN  /\ win_cache' = out.cache
                        /\ ledger_file' = out.file
                        /\ EventCall("window_handle_usb_event", e, "removed",
                                     <<ToggleCall("disable", result)>>)
        /\ UNCHANGED <<now, svc_cache, event_queue, active_devices, pc, event, delivered>>

\* variant: the status is recorded whatever disable reports
handle_lock_records_always(id) ==
    /\ window_steps < MaxWindowSteps
    /\ window_steps' = window_steps + 1
    /\ get(win_cache, id) # NoState
    /\ \E result \in ToggleResults :
           LET out == update_state(id, "locked")
           IN  /\ win_cache' = out.cache
               /\ ledger_file' = out.file
               /\ NoPinCall("handle_lock", id,
                            IF result.success THEN "locked" ELSE "failed",
                            <<ToggleCall("disable", result)>>)
    /\ UNCHANGED <<now, svc_cache, event_queue, active_devices, pc, event, delivered>>

\* handle_lock on the selected row
handle_lock(id) ==
    /\ window_steps < MaxWindowSteps
    /\ window_steps' = window_steps + 1
    /\ get(win_cache, id) # NoState
    /\ \E result \in ToggleResults :
           LET out == update_state(id, "locked")
           IN  IF result.success
               THEN /\ win_cache' = out.cache
                    /\ ledger_file' = out.file
                    /\ NoPinCall("handle_lock", id, "locked",
                                 <<ToggleCall("disable", result)>>)
               ELSE /\ NoPinCall("handle_lock", id, "failed",
                                 <<ToggleCall("disable", result)>>)
                    /\ UNCHANGED <<win_cache, ledger_file>>
    /\ UNCHANGED <<now, svc_cache, event_queue, active_devices, pc, event, delivered>>

\* handle_unlock on the selected row, with the PIN typed into the entry
\* (no cached PIN: win32crypt is not available)
handle_unlock(id, pin) ==
    /\ window_steps < MaxWindowSteps
    /\ window_steps' = window_steps + 1
    /\ get(win_cache, id) # NoState
    /\ \E decrypt_ok \in CacheOutcomes(win32crypt), write_ok \in CacheOutcomes(win32crypt) :
       LET cached_pin == get_cached_pin_outcome(win32crypt, pin_cache, now,
                                                DefaultMaxAge, decrypt_ok)
           \* the PIN verified: the entry, or the cached PIN when it is empty
           used == IF pin = PinEmpty /\ cached_pin # None THEN cached_pin ELSE pin
       IN
       IF used = PinEmpty
       THEN /\ op' = Step("handle_unlock", pin, None, id, "no pin", <<>>)
            /\ before' = Snapshot
            /\ UNCHANGED <<pin_file, last_set, streak, last_fail_at,
                           win_cache, ledger_file, cacheVars>>
       ELSE LET verified == verify_pin_outcome(pin_file, used, now, config)
            IN  /\ pin_file' = verified.data
                /\ pin_cache' = IF verified.result = "ok"
                                THEN cache_last_pin(win32crypt, pin_cache, used, now, write_ok)
                                ELSE pin_cache
                /\ cache_hist' = IF verified.result = "ok" /\ win32crypt /\ write_ok
                                 THEN Cached(used, now) ELSE cache_hist
                /\ UNCHANGED win32crypt
                /\ before' = Snapshot
                /\ streak' = StreakAfter(verified.result, TRUE)
                /\ last_fail_at' = IF verified.result = "PinValidationError"
                                   THEN now ELSE last_fail_at
                /\ UNCHANGED last_set
                /\ IF verified.result # "ok"
                   THEN /\ op' = Step("handle_unlock", pin, None, id,
                                      verified.result, <<>>)
                        /\ UNCHANGED <<win_cache, ledger_file>>
                   ELSE \E result \in ToggleResults :
                           IF result.success
                           THEN LET out == update_state(id, "unlocked")
                                IN  /\ win_cache' = out.cache
                                    /\ ledger_file' = out.file
                                    /\ op' = Step("handle_unlock", pin, None, id,
                                                  "unlocked", <<ToggleCall("enable", result)>>)
                           ELSE IF is_device_missing(result)
                           THEN LET out == update_state(id, "removed")
                                IN  /\ win_cache' = out.cache
                                    /\ ledger_file' = out.file
                                    /\ op' = Step("handle_unlock", pin, None, id,
                                                  "removed", <<ToggleCall("enable", result)>>)
                           ELSE /\ op' = Step("handle_unlock", pin, None, id,
                                              "failed", <<ToggleCall("enable", result)>>)
                                /\ UNCHANGED <<win_cache, ledger_file>>
    /\ UNCHANGED <<now, config, svc_cache, event_queue, active_devices, pc, event,
                   delivered, storeVars, stopVars, tailVars>>

\* sync_external_store: store.reload()
sync_external_store ==
    /\ window_steps < MaxWindowSteps
    /\ window_steps' = window_steps + 1
    /\ win_cache' = reload(ledger_file)
    /\ NoPinCall("sync_external_store", NoId, "ok", <<>>)
    /\ UNCHANGED <<now, ledger_file, svc_cache, event_queue, active_devices, pc,
                   event, delivered>>

\* more than the grace window passes
Elapse ==
    /\ now <= MaxTime
    /\ now' = now + RECENT_UNLOCK_SECONDS
    /\ NoPinCall("elapse", NoId, "ok", <<>>)
    /\ UNCHANGED sysVars

vars == <<now, config, pin_file, cacheVars, op, before, last_set, streak, last_fail_at, sysVars>>

\* the ledger file found at start-up: none, or the one left by an earlier
\* session in which USB1 was unlocked
LedgersAtStart ==
    {EmptyStore,
     [EmptyStore EXCEPT !["USB1"] = DeviceState("USB1", "E:", "USB", "unlocked", 0)]}

(***************************************************************************)
(* The locks: which of them each routine takes, and in which order         *)
(***************************************************************************)
\* DeviceStateStore._lock of the service's store and of the device window's
\* store, PinManager._lock, LockPortService._active_lock
Locks == {"ledger_svc", "ledger_win", "pin", "active"}

\* threading.RLock may be taken again by its owner, threading.Lock may not
Reentrant(l) == l # "active"

\* the two worker threads, the device window's thread, the monitor thread
LockThreads == {"worker1", "worker2", "window", "monitor"}

NoThread == "-"

Free == [thread |-> NoThread, count |-> 0]

Acquire(l) == [kind |-> "acquire", lock |-> l]

Release(l) == [kind |-> "release", lock |-> l]

\* DeviceLocker.disable or enable
Toggle == [kind |-> "toggle", lock |-> "-"]

\* queue.Queue.put_nowait
Put == [kind |-> "put", lock |-> "-"]

\* DeviceStateStore.get, list_states, reload: one with-block
store_get_trace(l) == <<Acquire(l), Release(l)>>

\* DeviceStateStore.upsert: _persist takes the lock again inside upsert's
\* with-block
store_upsert_trace(l) == <<Acquire(l), Acquire(l), Release(l), Release(l)>>

\* with self._active_lock: the check and the add, or the discard
active_trace == <<Acquire("active"), Release("active")>>

\* _process_usb_event and _handle_usb_removal after the discard: the toggle
\* call, then _record_device_state
lock_and_record_trace == <<Toggle>> \o store_upsert_trace("ledger_svc")

\* variant: the lock action and the ledger write happen inside the
\* active-set lock
process_event_trace_nested(outcome) ==
    IF outcome = "no instance id" THEN <<>>
    ELSE IF outcome = "removal"
    THEN <<Acquire("active")>> \o lock_and_record_trace \o <<Release("active")>>
    ELSE IF outcome \in {"recently unlocked", "synthetic"}
    THEN store_get_trace("ledger_svc")
    ELSE IF outcome = "already processing"
    THEN store_get_trace("ledger_svc") \o active_trace
    ELSE store_get_trace("ledger_svc") \o <<Acquire("active")>>
         \o lock_and_record_trace \o <<Release("active")>>

\* _process_event, by the outcome of its checks
process_event_trace(outcome) ==
    IF outcome = "no instance id" THEN <<>>
    ELSE IF outcome = "removal"
    THEN active_trace \o lock_and_record_trace
    ELSE IF outcome \in {"recently unlocked", "synthetic"}
    THEN store_get_trace("ledger_svc")
    ELSE IF outcome = "already processing"
    THEN store_get_trace("ledger_svc") \o active_trace
    ELSE store_get_trace("ledger_svc") \o active_trace
         \o lock_and_record_trace \o active_trace

ProcessEventOutcomes ==
    {"no instance id", "removal", "recently unlocked", "synthetic",
     "already processing", "inserted"}

\* PinManager._write, and _read of an existing file: one with-block
pin_trace == <<Acquire("pin"), Release("pin")>>

\* PinManager._read: when the file is gone, _initialize_store and its _write
\* take the lock again inside _read's with-block
pin_read_trace(exists) ==
    IF exists THEN pin_trace
    ELSE <<Acquire("pin"), Acquire("pin"), Acquire("pin"),
           Release("pin"), Release("pin"), Release("pin")>>

\* verify_pin: _read, and _write unless the PIN entry is locked
verify_pin_trace(result, exists) ==
    IF result = "PinLockedError"
    THEN pin_read_trace(exists)
    ELSE pin_read_trace(exists) \o pin_trace

\* _update_state: store.upsert, then refresh_now's store.list_states
update_state_trace == store_upsert_trace("ledger_win") \o store_get_trace("ledger_win")

\* the device window's handle_unlock, by the outcome of verify_pin
handle_unlock_trace(result, exists) ==
    IF result = "ok"
    THEN verify_pin_trace(result, exists) \o <<Toggle>> \o update_state_trace
    ELSE verify_pin_trace(result, exists)

\* the device window's _handle_arrival (store.get, the toggle call,
\* store.upsert) and _handle_removal (the toggle call, store.upsert), each
\* followed by refresh_now
window_handle_usb_event_trace(event_type) ==
    IF event_type = "arrival"
    THEN store_get_trace("ledger_win") \o <<Toggle>> \o update_state_trace
    ELSE <<Toggle>> \o update_state_trace

\* the device window's handle_lock
handle_lock_trace == <<Toggle>> \o update_state_trace

\* the device window's sync_external_store: store.reload, then refresh_now
sync_external_store_trace == store_get_trace("ledger_win") \o store_get_trace("ledger_win")

\* the routines each thread runs
LockRoutines(t) ==
    IF t \in {"worker1", "worker2"}
    THEN {process_event_trace(o) : o \in ProcessEventOutcomes}
    ELSE IF t = "window"
    THEN {handle_unlock_trace(r, exists) :
              r \in {"ok", "PinValidationError", "PinLockedError"}, exists \in BOOLEAN}
         \cup {window_handle_usb_event_trace(e) : e \in {"arrival", "removal"}}
         \cup {handle_lock_trace, sync_external_store_trace}
    ELSE {<<Put>>}

lockFrame == <<now, config, pin_file, cacheVars, op, before, last_set, streak,
               last_fail_at, ledger_file, svc_cache, win_cache, event_queue,
               active_devices, pc, event, delivered, window_steps, storeVars,
               stopVars, pin_threads, conc_hist>>

\* a thread enters one of its routines
lock_begin(t) ==
    /\ lock_trace[t] = <<>>
    /\ \E trace \in LockRoutines(t) :
          /\ trace # <<>>
          /\ lock_trace' = [lock_trace EXCEPT ![t] = trace]
    /\ UNCHANGED <<lock_owner, lockFrame>>

\* the thread can take the lock it asks for
CanAcquire(t, l) ==
    \/ lock_owner[l].thread = NoThread
    \/ lock_owner[l].thread = t /\ Reentrant(l)

lock_acquire(t) ==
    /\ lock_trace[t] # <<>>
    /\ Head(lock_trace[t]).kind = "acquire"
    /\ LET l == Head(lock_trace[t]).lock
       IN  /\ CanAcquire(t, l)
           /\ lock_owner' = [lock_owner EXCEPT
                                ![l] = [thread |-> t, count |-> @.count + 1]]
    /\ lock_trace' = [lock_trace EXCEPT ![t] = Tail(@)]
    /\ UNCHANGED lockFrame

lock_release(t) ==
    /\ lock_trace[t] # <<>>
    /\ Head(lock_trace[t]).kind = "release"
    /\ LET l == Head(lock_trace[t]).lock
       IN  lock_owner' = [lock_owner EXCEPT
                            ![l] = IF @.count = 1 THEN Free
                                   ELSE [@ EXCEPT !.count = @ - 1]]
    /\ lock_trace' = [lock_trace EXCEPT ![t] = Tail(@)]
    /\ UNCHANGED lockFrame

\* a toggle call or a put: no lock is involved
lock_free_step(t) ==
    /\ lock_trace[t] # <<>>
    /\ Head(lock_trace[t]).kind \in {"toggle", "put"}
    /\ lock_trace' = [lock_trace EXCEPT ![t] = Tail(@)]
    /\ UNCHANGED <<lock_owner, lockFrame>>

\* no thread is inside a PinManager call, no lock is held
InitTail ==
    /\ pin_threads = [t \in PinThreads |-> IdleThread]
    /\ conc_hist = [calls |-> 0, mismatches |-> 0, only_wrong |-> TRUE]
    /\ lock_owner = [l \in Locks |-> Free]
    /\ lock_trace = [t \in LockThreads |-> <<>>]

\* both stores just constructed from the ledger file, the worker threads
\* started and waiting on the empty queue
InitSys ==
    /\ ledger_file \in LedgersAtStart
    /\ svc_cache = load(EmptyStore, ledger_file)
    /\ win_cache = load(EmptyStore, ledger_file)
    /\ event_queue = <<>>
    /\ active_devices = {}
    /\ pc = [w \in Workers |-> "get"]
    /\ event = [w \in Workers |-> NoEvent]
    /\ delivered = 0
    /\ window_steps = 0
    /\ store_op = NoStoreCall
    /\ store_calls = 0
    /\ store_hist = [last |-> [id \in Ids |-> NoUpsert], writers |-> {}, failed |-> FALSE]
    /\ pin_cache = NoCache
    /\ cache_hist = NothingCached
    /\ InitTail
    /\ stop_event = FALSE
    /\ stop_pc = "idle"
    /\ monitor_pc = "running"
    /\ pushed = 0

(***************************************************************************)
(* The credential store driven through its API by one caller               *)
(***************************************************************************)
InitPin ==
    /\ now = 1
    /\ config \in [pin_attempt_limit : 1..MaxLimit,
                   pin_lockout_seconds : 1..MaxLockout]
    /\ \E salt \in Salts : pin_file = initialize_store(salt, now)
    /\ op = Call("init", None, None, NoId, "ok")
    /\ last_set = DefaultPin
    /\ before = [data |-> pin_file, last_set |-> last_set]
    /\ streak = 0
    /\ last_fail_at = 0
    /\ ledger_file = EmptyStore
    /\ win32crypt = FALSE
    /\ InitSys

NextPin ==
    \/ \E c \in Candidates : verify_pin(c)
    \/ \E n \in Candidates, c \in CurrentPins : set_pin(n, c)
    \/ reset_lockout
    \/ get_status
    \/ Tick

SpecPin == InitPin /\ [][NextPin]_vars

\* ---- a restart: a new PinManager over the same store file ----
\* variant: the constructor writes the default record whatever it finds
PinManager_init_reinitializes(exists, data, salt, t) ==
    initialize_store(salt, t)

\* PinManager.__init__ as a function of the store file: the default record
\* is written only when the file does not exist
PinManager_init(exists, data, salt, t) ==
    IF ~ exists THEN initialize_store(salt, t) ELSE data

\* the process is started again; the store file written by the previous
\* process exists, the configuration is the same
construct ==
    \E salt \in Salts :
        /\ pin_file' = PinManager_init(TRUE, pin_file, salt, now)
        /\ op' = Call("construct", None, None, NoId, "ok")
        /\ before' = Snapshot
        /\ UNCHANGED <<now, config, last_set, streak, last_fail_at, cacheVars, sysVars>>

NextRestart ==
    \/ \E c \in Candidates : verify_pin(c)
    \/ \E n \in Candidates, c \in CurrentPins : set_pin(n, c)
    \/ reset_lockout
    \/ get_status
    \/ Tick
    \/ construct

SpecRestart == InitPin /\ [][NextRestart]_vars

\* ---- the PinManager with its PIN cache, win32crypt available or not ----
InitCache ==
    /\ now = 1
    /\ config = [pin_attempt_limit |-> MaxLimit, pin_lockout_seconds |-> MaxLockout]
    /\ pin_file = initialize_store("s1", now)
    /\ op = Call("init", None, None, NoId, "ok")
    /\ last_set = DefaultPin
    /\ before = [data |-> pin_file, last_set |-> last_set]
    /\ streak = 0
    /\ last_fail_at = 0
    /\ ledger_file = EmptyStore
    /\ win32crypt \in BOOLEAN
    /\ InitSys

\* the PINs the callers use: the default one and the one it is changed to
CachePins == {DefaultPin, Pin1234}

NextCache ==
    \/ \E c \in CachePins : verify_pin(c)
    \/ \E c \in {None, DefaultPin} : set_pin(Pin1234, c)
    \/ reset_lockout
    \/ get_status
    \/ get_cached_pin
    \/ Tick

SpecCache == InitCache /\ [][NextCache]_vars

(***************************************************************************)
(* The whole system: the service's monitor callback and worker threads,    *)
(* and the device window with its own store over the same ledger file      *)
(***************************************************************************)
Init ==
    /\ now = 1
    /\ config = [pin_attempt_limit |-> MaxLimit, pin_lockout_seconds |-> MaxLockout]
    /\ pin_file = initialize_store("s1", now)
    /\ op = Call("init", None, None, NoId, "ok")
    /\ last_set = DefaultPin
    /\ before = [data |-> pin_file, last_set |-> last_set]
    /\ streak = 0
    /\ last_fail_at = 0
    /\ win32crypt = FALSE
    /\ InitSys

Next ==
    \/ \E e \in MonitorEvents : handle_usb_event(e, MaxEvents)
    \/ \E w \in Workers : worker_loop(w)
    \/ \E w \in Workers : process_event(w)
    \/ \E w \in Workers : process_usb_event(w)
    \/ \E w \in Workers : handle_usb_removal(w)
    \/ \E e \in MonitorEvents : window_handle_usb_event(e)
    \/ \E id \in Ids : handle_lock(id)
    \/ \E id \in Ids, pin \in PinEntries : handle_unlock(id, pin)
    \/ sync_external_store
    \/ Elapse

Spec == Init /\ [][Next]_vars

\* ---- two threads calling PinManager on the same store file ----
\* the PINs the threads verify: the default one and the one it is changed to
ThreadPins == {DefaultPin, Pin1234}

InitThreads == Init /\ ledger_file = EmptyStore

NextThreads ==
    \/ \E t \in PinThreads, pin \in ThreadPins : pin_read(t, "verify_pin", pin)
    \/ \E t \in PinThreads : pin_read(t, "set_pin", Pin1234)
    \/ \E t \in PinThreads : pin_read(t, "reset_lockout", None)
    \/ \E t \in PinThreads : verify_pin_write(t)
    \/ \E t \in PinThreads : set_pin_write(t)
    \/ \E t \in PinThreads : reset_lockout_write(t)

SpecThreads == InitThreads /\ [][NextThreads]_vars

\* ---- the threads of the service and of the device window on their locks ----
InitLocks == Init /\ ledger_file = EmptyStore

NextLocks ==
    \/ \E t \in LockThreads : lock_begin(t)
    \/ \E t \in LockThreads : lock_acquire(t)
    \/ \E t \in LockThreads : lock_release(t)
    \/ \E t \in LockThreads : lock_free_step(t)

SpecLocks == InitLocks /\ [][NextLocks]_vars

(***************************************************************************)
(* The service alone: its monitor and its worker pool, no device window    *)
(***************************************************************************)
NextService ==
    \/ \E e \in MonitorEvents : handle_usb_event(e, MaxServiceEvents)
    \/ \E w \in Workers : worker_loop(w)
    \/ \E w \in Workers : process_event(w)
    \/ \E w \in Workers : process_usb_event(w)
    \/ \E w \in Workers : handle_usb_removal(w)
    \/ Elapse

SpecService == Init /\ [][NextService]_vars

(***************************************************************************)
(* The queue under a burst: the monitor notifies a fixed stream of events  *)
(* faster than the workers take them                                       *)
(***************************************************************************)
\* the n-th event of the burst (from 0): arrivals and removals of volumes
\* whose instance id does not resolve, in turn
BurstEvent(n) ==
    IF n % 2 = 0 THEN USBEvent("", "arrival", FALSE) ELSE USBEvent("", "removal", FALSE)

NextQueue ==
    \/ handle_usb_event(BurstEvent(delivered), MaxBurst)
    \/ \E w \in Workers : worker_loop(w)
    \/ \E w \in Workers : process_event(w)

SpecQueue == Init /\ [][NextQueue]_vars

(***************************************************************************)
(* A device plugged in and pulled out: the monitor notifies its arrival,   *)
(* then its removal, and so on in turn                                     *)
(***************************************************************************)
\* the n-th event of the device (from 0)
RaceEvent(n) ==
    IF n % 2 = 0
    THEN USBEvent("USB1", "arrival", FALSE)
    ELSE USBEvent("USB1", "removal", FALSE)

NextRace ==
    \/ handle_usb_event(RaceEvent(delivered), MaxRaceEvents)
    \/ \E w \in Workers : worker_loop(w)
    \/ \E w \in Workers : process_event(w)
    \/ \E w \in Workers : process_usb_event(w)
    \/ \E w \in Workers : handle_usb_removal(w)

SpecRace == Init /\ [][NextRace]_vars

(***************************************************************************)
(* The service and its shutdown: stop may be called at any moment          *)
(***************************************************************************)
worker(w) ==
    \/ worker_loop(w)
    \/ worker_loop_empty(w)
    \/ process_event(w)
    \/ process_usb_event(w)
    \/ handle_usb_removal(w)

shutdown_workers == shutdown_drain \/ shutdown_put \/ shutdown_join

\* the events notified while the shutdown is observed: one device comes and
\* goes
StopEvents == {USBEvent("USB1", "arrival", FALSE), USBEvent("USB1", "removal", FALSE)}

NextStop ==
    \/ \E e \in StopEvents : handle_usb_event(e, MaxStopEvents)
    \/ \E w \in Workers : worker_loop(w)
    \/ \E w \in Workers : worker_loop_empty(w)
    \/ \E w \in Workers : process_event(w)
    \/ \E w \in Workers : process_usb_event(w)
    \/ \E w \in Workers : handle_usb_removal(w)
    \/ stop
    \/ monitor_exit
    \/ shutdown_drain
    \/ shutdown_put
    \/ shutdown_join

\* every thread that can take a step is scheduled: the caller of stop once it
\* has called it, each worker (a toggle call in flight returns), the monitor
\* thread on its way out
SpecStop ==
    /\ Init
    /\ [][NextStop]_vars
    /\ WF_vars(shutdown_workers)
    /\ WF_vars(monitor_exit)
    /\ \A w \in Workers : WF_vars(worker(w))

(***************************************************************************)
(* The two stores driven through their API                                 *)
(***************************************************************************)
NextStore ==
    \/ \E s \in Stores, id \in Ids, label \in Labels, status \in Statuses,
          write_ok \in BOOLEAN :
            store_upsert(s, id, label[1], label[2], status, write_ok)
    \/ \E s \in Stores : store_reload(s)
    \/ \E s \in Stores : store_construct(s)
    \/ StoreTick

\* no ledger file yet: every record comes from an upsert
InitStore == Init /\ ledger_file = EmptyStore

SpecStore == InitStore /\ [][NextStore]_vars

(***************************************************************************)
(* Properties of the whole system (checked under Spec)                     *)
(***************************************************************************)
\* the step taken is a manual unlock in which verify_pin returned success
VerifiedManualUnlock(id) ==
    /\ op'.name = "handle_unlock"
    /\ op'.id = id
    /\ verify_pin_outcome(pin_file, op'.pin, now, config).result = "ok"

\* C1: in every step of the system, enable is invoked, and a device's status
\* in the ledger file changes to 'unlocked', only in a manual unlock of that
\* device in which verify_pin has just succeeded; in particular the
\* processing of an arrival or a removal does neither
C1_UnlockOnlyAfterVerifiedPin ==
    [][ /\ op'.toggle = "enable" => VerifiedManualUnlock(op'.id)
        /\ \A id \in Ids :
              (ledger_file'[id].status = "unlocked"
                  /\ ledger_file[id].status # "unlocked")
              => VerifiedManualUnlock(id) ]_vars

(***************************************************************************)
(* Properties of the credential store (checked under SpecPin)              *)
(***************************************************************************)
Limit == config.pin_attempt_limit
Lockout == config.pin_lockout_seconds
IsCall(name) == op.name = name
ActiveLockoutBefore == before.data.lock_until > now
StoredPinVerifies(pin) ==
    /\ PinStoreRecord_verify(pin_file.pin, pin)
    /\ \A q \in Candidates : q # pin => ~ PinStoreRecord_verify(pin_file.pin, q)

\* C2: after pin_attempt_limit consecutive mismatching verify_pin calls, the
\* next verify_pin made before the lockout has run out fails with
\* PinLockedError whatever the candidate; made once it has run out, with the
\* correct PIN, it succeeds and leaves failed_attempts = 0
C2_LockoutAfterLimit ==
    [][(op'.name = "verify_pin" /\ streak = Limit) =>
          /\ (now < last_fail_at + Lockout => op'.result = "PinLockedError")
          /\ (now >= last_fail_at + Lockout /\ op'.pin = last_set =>
                 op'.result = "ok" /\ pin_file'.failed_attempts = 0)]_vars

C2_Witness ==
    /\ IsCall("verify_pin")
    /\ op.pin = last_set
    /\ op.result = "PinLockedError"
    /\ streak = Limit
    /\ Limit = 2

\* C3: verify_pin during a lockout fails with PinLockedError and leaves
\* failed_attempts, lock_until and the PIN hash as they were
C3_LockedConsumesNothing ==
    (IsCall("verify_pin") /\ ActiveLockoutBefore) =>
        /\ op.result = "PinLockedError"
        /\ pin_file.failed_attempts = before.data.failed_attempts
        /\ pin_file.lock_until = before.data.lock_until
        /\ pin_file.pin = before.data.pin

C3_Witness ==
    /\ IsCall("verify_pin")
    /\ ActiveLockoutBefore
    /\ op.pin # last_set
    /\ op.result = "PinLockedError"

\* C4: a mismatching verify_pin outside a lockout fails with
\* PinValidationError; below the limit it adds 1 to failed_attempts and
\* leaves lock_until, at the limit it sets lock_until = now + lockout and
\* failed_attempts = 0
C4_MismatchCounts ==
    (IsCall("verify_pin") /\ ~ ActiveLockoutBefore /\ op.pin # before.last_set) =>
        /\ op.result = "PinValidationError"
        /\ IF before.data.failed_attempts + 1 < Limit
           THEN /\ pin_file.failed_attempts = before.data.failed_attempts + 1
                /\ pin_file.lock_until = before.data.lock_until
           ELSE /\ pin_file.lock_until = now + Lockout
                /\ pin_file.failed_attempts = 0

C4_Witness ==
    /\ IsCall("verify_pin")
    /\ op.result = "PinValidationError"
    /\ before.data.lock_until > 0
    /\ pin_file.failed_attempts = 1
    /\ pin_file.lock_until = before.data.lock_until

\* C5: a successful verify_pin leaves failed_attempts = 0 and lock_until = 0
\* and does not change the PIN hash
C5_SuccessClears ==
    (IsCall("verify_pin") /\ op.result = "ok") =>
        /\ pin_file.failed_attempts = 0
        /\ pin_file.lock_until = 0
        /\ pin_file.pin = before.data.pin

C5_Witness ==
    /\ IsCall("verify_pin")
    /\ op.result = "ok"
    /\ before.data.failed_attempts > 0
    /\ before.data.lock_until > 0

\* C6: right after a successful set_pin(p), verify_pin(p) succeeds and
\* verify_pin(q) fails with PinValidationError for every other digit string q
C6_SetThenVerify ==
    (IsCall("set_pin") /\ op.result = "ok") =>
        \A q \in Candidates :
            (q = op.pin \/ isdigit(q)) =>
                verify_pin_outcome(pin_file, q, now, config).result =
                    (IF q = op.pin THEN "ok" ELSE "PinValidationError")

C6_Witness ==
    /\ IsCall("set_pin")
    /\ op.result = "ok"
    /\ op.pin = Pin8
    /\ before.last_set = Pin1234

\* C7: set_pin with a well-formed new PIN and no current_pin succeeds from
\* every state of the record, leaves failed_attempts = 0 and lock_until = 0,
\* and the new PIN is the stored one
C7_PrivilegedSetResets ==
    (IsCall("set_pin") /\ WellFormed(op.pin) /\ op.cur = None) =>
        /\ op.result = "ok"
        /\ pin_file.failed_attempts = 0
        /\ pin_file.lock_until = 0
        /\ StoredPinVerifies(op.pin)

C7_Witness ==
    /\ IsCall("set_pin")
    /\ op.cur = None
    /\ op.result = "ok"
    /\ ActiveLockoutBefore
    /\ op.pin # before.last_set

CurrentPinRefused ==
    /\ IsCall("set_pin")
    /\ op.cur # None
    /\ (op.cur # before.last_set \/ ActiveLockoutBefore)

\* C8 as stated: whenever current_pin does not verify, set_pin fails with
\* PinValidationError and the stored PIN is the previous one
C8_AsStated ==
    CurrentPinRefused =>
        /\ op.result = "PinValidationError"
        /\ pin_file.pin = before.data.pin
        /\ StoredPinVerifies(before.last_set)

\* C8 (amended): when the new PIN is well-formed and current_pin does not
\* verify (mismatch, or lockout), set_pin fails with PinValidationError and
\* the stored PIN is the previous one
C8_RefusedCurrentPin ==
    (CurrentPinRefused /\ WellFormed(op.pin)) =>
        /\ op.result = "PinValidationError"
        /\ pin_file.pin = before.data.pin
        /\ StoredPinVerifies(before.last_set)

C8_Witness ==
    /\ CurrentPinRefused
    /\ WellFormed(op.pin)
    /\ ActiveLockoutBefore
    /\ op.cur = before.last_set
    /\ op.result = "PinValidationError"

\* C9: set_pin with a malformed new PIN is rejected with ValueError and the
\* stored record is untouched, with or without a current_pin
C9_MalformedNewPin ==
    (IsCall("set_pin") /\ ~ WellFormed(op.pin)) =>
        /\ op.result = "ValueError"
        /\ pin_file = before.data

C9_Witness ==
    /\ IsCall("set_pin")
    /\ ~ WellFormed(op.pin)
    /\ op.cur # None
    /\ op.cur # before.last_set
    /\ ~ ActiveLockoutBefore
    /\ op.result = "ValueError"

\* C10: verify_pin with a malformed candidate leaves failed_attempts and
\* lock_until unchanged
C10_MalformedNotCounted ==
    (IsCall("verify_pin") /\ ~ WellFormed(op.pin)) =>
        /\ pin_file.failed_attempts = before.data.failed_attempts
        /\ pin_file.lock_until = before.data.lock_until

\* the records _initialize_store can write at construction
FreshRecords == {initialize_store(salt, 1) : salt \in Salts}

\* C11: a store constructed where no record exists holds the default PIN
\* "0000" with failed_attempts = 0 and lock_until = 0, and verify_pin("0000")
\* made as the first operation succeeds
C11_FreshStoreDefaultPin ==
    /\ IsCall("init") =>
          /\ pin_file.failed_attempts = 0
          /\ pin_file.lock_until = 0
          /\ PinStoreRecord_verify(pin_file.pin, DefaultPin)
          /\ verify_pin_outcome(pin_file, DefaultPin, now, config).result = "ok"
    /\ (IsCall("verify_pin") /\ op.pin = DefaultPin /\ before.data \in FreshRecords)
          => op.result = "ok"

C11_Witness ==
    /\ IsCall("verify_pin")
    /\ op.pin = DefaultPin
    /\ before.data \in FreshRecords
    /\ op.result = "ok"

\* C12: reset_lockout leaves failed_attempts = 0 and lock_until = 0 whatever
\* the record was, does not change the PIN hash, and applying it again
\* changes nothing
C12_ResetLockout ==
    IsCall("reset_lockout") =>
        /\ pin_file.failed_attempts = 0
        /\ pin_file.lock_until = 0
        /\ pin_file.pin = before.data.pin
        /\ reset_lockout_outcome(pin_file) = pin_file
        /\ reset_lockout_outcome(reset_lockout_outcome(before.data))
              = reset_lockout_outcome(before.data)

C12_Witness ==
    /\ IsCall("reset_lockout")
    /\ before.data.lock_until > now
    /\ pin_file.lock_until = 0

\* a second reset_lockout case: a counter that was running
C12_WitnessCounter ==
    /\ IsCall("reset_lockout")
    /\ before.data.failed_attempts > 0

\* C13: get_status changes nothing of the record, and reports locked exactly
\* when lock_until > now, which is exactly when verify_pin at the same
\* instant fails with PinLockedError, whatever the candidate
C13_GetStatusReadOnly ==
    IsCall("get_status") =>
        /\ pin_file = before.data
        /\ (op.result = "locked") <=> (pin_file.lock_until > now)
        /\ \A c \in Candidates :
              (op.result = "locked")
                  <=> (verify_pin_outcome(pin_file, c, now, config).result
                          = "PinLockedError")

C13_Witness ==
    /\ IsCall("get_status")
    /\ op.result = "locked"
    /\ pin_file.lock_until > now

(***************************************************************************)
(* Properties of the device-state store (checked under SpecStore)          *)
(***************************************************************************)
\* an optional string as the store keeps it
Stored(x) == IF x = Null THEN "" ELSE x

Held(cache) == {id \in Ids : cache[id] # NoState}

\* the record agrees with the arguments of an upsert
Matches(state, args) ==
    /\ state # NoState
    /\ state.status = args.status
    /\ state.drive = Stored(args.drive)
    /\ state.volume = Stored(args.volume)

\* C14: upsert(instance_id, drive, volume, status) leaves under instance_id
\* a record with that status, drive and volume (absent ones as "") and the
\* time of the call, which get returns; the store then holds the ids it held
\* before plus instance_id, and every other record is as it was
C14_UpsertReplacesRecord ==
    [][ store_op'.name = "upsert" =>
          LET s == store_op'.store
              id == store_op'.instance_id
              old == cache_of(s)
              new == IF s = "svc" THEN svc_cache' ELSE win_cache'
          IN  /\ get(new, id) = DeviceState(id, Stored(store_op'.drive),
                                            Stored(store_op'.volume),
                                            store_op'.status, now)
              /\ \A other \in Ids \ {id} : new[other] = old[other]
              /\ Held(new) = Held(old) \cup {id} ]_vars

C14_Witness ==
    /\ store_op.name = "upsert"
    /\ store_op.drive = Null
    /\ get(cache_of(store_op.store), store_op.instance_id).drive = ""
    /\ get(cache_of(store_op.store), store_op.instance_id).status = store_op.status
    /\ Held(cache_of(store_op.store)) = Ids

\* C15: after successful upserts made on one store instance only, a store
\* newly constructed over the same file holds, for every id upserted, a
\* record with the status, drive and volume of the last upsert for that id
C15_RoundTrip ==
    (/\ store_op.name = "construct"
     /\ Cardinality(store_hist.writers) <= 1
     /\ ~ store_hist.failed)
    => \A id \in Ids :
          store_hist.last[id] # NoUpsert
              => Matches(get(cache_of(store_op.store), id), store_hist.last[id])

C15_Witness ==
    /\ store_op.name = "construct"
    /\ store_op.store = "win"
    /\ store_hist.writers = {"svc"}
    /\ ~ store_hist.failed
    /\ \A id \in Ids : store_hist.last[id] # NoUpsert
    /\ \A id \in Ids : Matches(get(win_cache, id), store_hist.last[id])
    /\ \E id \in Ids : store_hist.last[id].drive = "E:"

\* C17: after reload, the store holds exactly the records of the backing
\* file; so an upsert another instance persisted before is returned by get,
\* and a record the file does not hold is gone
C17_ReloadReadsFile ==
    store_op.name = "reload" =>
        LET B == cache_of(store_op.store)
        IN  /\ \A id \in Ids : get(B, id) = ledger_file[id]
            /\ (/\ Cardinality(store_hist.writers) = 1
                /\ store_op.store \notin store_hist.writers
                /\ ~ store_hist.failed)
               => \A id \in Ids :
                     store_hist.last[id] # NoUpsert
                         => Matches(get(B, id), store_hist.last[id])

C17_Witness ==
    /\ store_op.name = "reload"
    /\ store_op.store = "win"
    /\ store_hist.writers = {"svc"}
    /\ ~ store_hist.failed
    /\ \E id \in Ids : Matches(get(win_cache, id), store_hist.last[id])

\* a second reload case: a record the store had cached but the file does not
\* hold does not survive the reload
C17_WitnessDropped ==
    /\ store_op.name = "reload"
    /\ store_op.store \in store_hist.writers
    /\ \E id \in Ids :
          /\ store_hist.last[id] # NoUpsert
          /\ ledger_file[id] = NoState
          /\ get(cache_of(store_op.store), id) = NoState

\* C16: a record is never deleted: an id a store holds a record for is still
\* held by that store after every step of the system (event processing,
\* manual lock and unlock, reload)
C16_RecordNeverDeleted ==
    [][ /\ Held(svc_cache) \subseteq Held(svc_cache')
        /\ Held(win_cache) \subseteq Held(win_cache') ]_vars

(***************************************************************************)
(* Properties of event processing by the service (checked under Spec)      *)
(***************************************************************************)
\* worker w takes the step that starts at position at
Takes(w, at) == pc[w] = at /\ pc'[w] # at

\* the service's store holds the device as unlocked within the grace window
RecentlyUnlocked(id) ==
    /\ get(svc_cache, id) # NoState
    /\ get(svc_cache, id).status = "unlocked"
    /\ now - get(svc_cache, id).updated_at < RECENT_UNLOCK_SECONDS

\* C18: a non-synthetic arrival of a device the service's store does not hold
\* as unlocked within the grace window, and that is not being processed, goes
\* on to _process_usb_event, which calls disable exactly once and records
\* 'locked' in the service's store (and in the file unless the write fails)
\* whether disable succeeded or not; the worker then takes the next event
C18_ArrivalLocks ==
    [][ \A w \in Workers :
          LET e == event[w]
              id == e.instance_id
          IN  /\ (/\ Takes(w, "process_event")
                  /\ e.event_type = "arrival" /\ ~ e.synthetic /\ id # ""
                  /\ ~ RecentlyUnlocked(id)
                  /\ id \notin active_devices)
                 => /\ pc'[w] = "process_usb_event"
                    /\ event'[w] = e
                    /\ op'.toggle = "none"
              /\ (Takes(w, "process_usb_event") /\ ~ e.synthetic)
                 => /\ op'.toggle = "disable"
                    /\ Len(op'.toggled) = 1
                    /\ get(svc_cache', id).status = "locked"
                    /\ op'.result # "OSError" => ledger_file'[id].status = "locked"
                    /\ pc'[w] = "get" ]_vars

\* the device was held as unlocked longer ago than the grace window (the
\* window's store still shows it), the one event delivered was its arrival,
\* disable failed, and it is recorded as locked
C18_Witness ==
    /\ op.name = "process_usb_event"
    /\ op.id = "USB1"
    /\ op.toggled = <<FALSE>>
    /\ delivered = 1
    /\ get(win_cache, "USB1").status = "unlocked"
    /\ now - get(win_cache, "USB1").updated_at >= RECENT_UNLOCK_SECONDS
    /\ get(svc_cache, "USB1").status = "locked"
    /\ ledger_file["USB1"].status = "locked"

\* the status a store reports for a device ('unknown' when it has no record)
StatusOf(cache, id) ==
    IF get(cache, id) = NoState THEN "unknown" ELSE get(cache, id).status

\* C19: no step of the processing of a synthetic arrival, by a worker of the
\* service or by the device window, calls the toggle, and the status the
\* store holds for the device afterwards is the one it held before
\* ('unknown' if it had no record)
C19_SyntheticArrivalPreserves ==
    [][ /\ \A w \in Workers :
              (event[w].synthetic /\ pc'[w] # pc[w])
              => /\ op'.toggle = "none"
                 /\ StatusOf(svc_cache', event[w].instance_id)
                       = StatusOf(svc_cache, event[w].instance_id)
        /\ (op'.name = "window_handle_usb_event" /\ op'.result = "preserved")
              => /\ op'.toggle = "none"
                 /\ StatusOf(win_cache', op'.id) = StatusOf(win_cache, op'.id) ]_vars

C20_WitnessUnknownDevice ==
    /\ op.name = "handle_usb_removal"
    /\ op.toggled = <<TRUE>>
    /\ get(win_cache, op.id) = NoState
    /\ window_steps = 0
    /\ get(svc_cache, op.id).status = "removed"

(***************************************************************************)
(* Properties of the manual actions of the device window (under Spec)      *)
(***************************************************************************)
\* the status of the device in the window's store and in the ledger file is
\* left as it was
StatusKept(id) ==
    /\ get(win_cache', id) = get(win_cache, id)
    /\ ledger_file'[id] = ledger_file[id]

\* the status is recorded in the window's store and in the ledger file
StatusRecorded(id, status) ==
    /\ get(win_cache', id).status = status
    /\ ledger_file'[id].status = status

C21_WitnessUnlocked ==
    /\ op.name = "handle_unlock"
    /\ op.toggled = <<TRUE>>
    /\ get(win_cache, op.id).status = "unlocked"
    /\ get(win_cache, op.id).updated_at = now
    /\ now > 1

C21_WitnessDenied ==
    /\ op.name = "handle_unlock"
    /\ op.messages = <<"Access is denied">>
    /\ get(win_cache, op.id).status = "locked"

C21_WitnessBadPin ==
    /\ op.name = "handle_unlock"
    /\ op.result = "PinValidationError"
    /\ op.toggle = "none"
    /\ get(win_cache, op.id).status = "locked"

\* C22: a manual lock calls disable once; it records 'locked' only if disable
\* succeeded; if it failed the recorded status is left as it was and the
\* failure is reported
C22_LockRecordsOnSuccess ==
    [][ op'.name = "handle_lock" =>
          /\ op'.toggle = "disable"
          /\ Len(op'.toggled) = 1
          /\ IF op'.toggled[1]
             THEN StatusRecorded(op'.id, "locked") /\ op'.result = "locked"
             ELSE StatusKept(op'.id) /\ op'.result = "failed" ]_vars

\* disable failed on a device held as unlocked, which stays unlocked
C22_Witness ==
    /\ op.name = "handle_lock"
    /\ op.toggled = <<FALSE>>
    /\ op.result = "failed"
    /\ get(win_cache, op.id).status = "unlocked"
    /\ ledger_file[op.id].status = "unlocked"

C22_WitnessLocked ==
    /\ op.name = "handle_lock"
    /\ op.toggled = <<TRUE>>
    /\ get(win_cache, op.id).status = "locked"
    /\ get(win_cache, op.id).updated_at = now
    /\ now > 1


(***************************************************************************)
(* Properties of the service's event pipeline (under SpecService)          *)
(***************************************************************************)
\* a step of worker w that neither calls the toggle nor changes a store, the
\* ledger file or the active set, and ends the processing of its event
DropsEvent(w) ==
    /\ pc'[w] = "get"
    /\ event'[w] = NoEvent
    /\ op'.toggle = "none"
    /\ svc_cache' = svc_cache
    /\ ledger_file' = ledger_file
    /\ active_devices' = active_devices

\* C23: a non-synthetic arrival of a device the service's store holds as
\* 'unlocked' with updated_at less than RECENT_UNLOCK_SECONDS ago is dropped
\* by _process_event: no toggle call, the record and the active set unchanged
C23_RecentUnlockSkipped ==
    [][ \A w \in Workers :
          LET e == event[w]
          IN  (/\ Takes(w, "process_event")
               /\ e.event_type = "arrival"
               /\ ~e.synthetic
               /\ e.instance_id # ""
               /\ RecentlyUnlocked(e.instance_id))
              => DropsEvent(w) /\ op'.result = "recently unlocked" ]_vars

\* a worker has dropped a non-synthetic arrival of a recently unlocked device
C23_Witness ==
    /\ op.name = "process_event"
    /\ op.result = "recently unlocked"
    /\ ~op.synthetic
    /\ get(svc_cache, op.id).status = "unlocked"
    /\ now - get(svc_cache, op.id).updated_at < RECENT_UNLOCK_SECONDS
    /\ \A w \in Workers : pc[w] = "get"
    /\ active_devices = {}

\* worker w is inside the processing of an arrival of the device: between the
\* insertion into the active set and the end of the finally block
Inside(w, id) == pc[w] = "process_usb_event" /\ event[w].instance_id = id

\* C24: a worker that takes an arrival of a device while another worker is
\* inside the processing of an arrival of the same device, the id still in
\* the active set, drops it: no disable call and no ledger write
C24_DuplicateArrivalDropped ==
    [][ \A w \in Workers :
          LET e == event[w]
              id == e.instance_id
          IN  (/\ Takes(w, "process_event")
               /\ e.event_type = "arrival"
               /\ id \in active_devices
               /\ \E v \in Workers \ {w} : Inside(v, id))
              => /\ DropsEvent(w)
                 /\ op'.result \in {"already processing", "recently unlocked",
                                    "synthetic"} ]_vars

\* the second of two arrivals was dropped while the first is being processed
C24_Witness ==
    /\ op.name = "process_event"
    /\ op.result = "already processing"
    /\ \E v \in Workers : Inside(v, op.id)
    /\ \E w \in Workers : pc[w] = "get"
    /\ op.id \in active_devices

\* C25: an event without instance id is dropped by _process_event whatever
\* its kind (arrival, synthetic arrival, removal): no toggle call, no change
\* of the store, the ledger file or the active set
C25_EmptyIdDropped ==
    [][ /\ \A w \in Workers :
            (Takes(w, "process_event") /\ event[w].instance_id = "")
            => DropsEvent(w) /\ op'.result = "no instance id"
        /\ \A kind \in {"arrival", "removal"}, synthetic \in BOOLEAN,
              id \in Ids \cup {""} :
            process_event_outcome(get(svc_cache, id), USBEvent("", kind, synthetic),
                                  now, active_devices \cup {""})
            = "no instance id" ]_vars

\* an event without instance id was dropped and nothing else has happened
C25_Witness ==
    /\ op.name = "process_event"
    /\ op.result = "no instance id"
    /\ op.id = ""
    /\ \A w \in Workers : pc[w] = "get"
    /\ event_queue = <<>>
    /\ delivered = 1
    /\ svc_cache = EmptyStore
    /\ ledger_file = EmptyStore

\* an arrival without instance id dropped while a device is being processed
C25_WitnessBusy ==
    /\ op.name = "process_event"
    /\ op.result = "no instance id"
    /\ active_devices = {"USB1"}


\* C26: the queue never holds more than QueueMaxsize (64) events; a call of
\* _handle_usb_event always completes: on a full queue it leaves the queue as
\* it is (the new event is lost), otherwise it appends the event at the tail
C26_QueueBounded ==
    [][ /\ Len(event_queue) <= QueueMaxsize
        /\ Len(event_queue') <= QueueMaxsize
        /\ (delivered < MaxBurst /\ monitor_pc # "stopped")
           => ENABLED handle_usb_event(BurstEvent(delivered), MaxBurst)
        /\ op'.name = "handle_usb_event"
           => IF Len(event_queue) = QueueMaxsize
              THEN event_queue' = event_queue /\ op'.result = "dropped"
              ELSE /\ event_queue' = Append(event_queue, BurstEvent(delivered))
                   /\ op'.result = "queued" ]_vars

\* an event was dropped on a full queue
C26_Witness ==
    /\ op.name = "handle_usb_event"
    /\ op.result = "dropped"
    /\ Len(event_queue) = QueueMaxsize
    /\ Head(event_queue) = BurstEvent(0)
    /\ event_queue[QueueMaxsize] = BurstEvent(QueueMaxsize - 1)

\* an event was queued behind others after a worker had taken the first
C26_WitnessAppended ==
    /\ op.name = "handle_usb_event"
    /\ op.result = "queued"
    /\ Len(event_queue) = 3
    /\ event_queue[1] = BurstEvent(1)
    /\ event_queue[3] = BurstEvent(3)


\* C27: for every device at most one worker is inside the processing of an
\* arrival of it, and the device is in the active set exactly while a worker
\* is
C27_OneLockActionPerDevice ==
    \A id \in Ids :
        /\ Cardinality({w \in Workers : Inside(w, id)}) <= 1
        /\ id \in active_devices <=> \E w \in Workers : Inside(w, id)

\* the first half of C27 alone: two workers are never inside the processing
\* of an arrival of the same device
C27_AtMostOneInside ==
    \A id \in Ids : Cardinality({w \in Workers : Inside(w, id)}) <= 1

\* C28 (under SpecRace): the monitor has notified the arrival, then the
\* removal of the device, and the removal was processed while the arrival was
\* being processed (the device has left the active set under the worker that
\* is inside); whichever worker finishes last, the service's store then holds
\* the device as 'removed'
C28_RemovalOverrides ==
    [][ \A v \in Workers :
          LET id == event[v].instance_id
          IN  (/\ delivered = 2
               /\ event_queue = <<>>
               /\ \A w \in Workers \ {v} : pc[w] = "get"
               /\ \/ Takes(v, "process_usb_event") /\ id \notin active_devices
                  \/ Takes(v, "handle_usb_removal"))
              => StatusOf(svc_cache', id) = "removed" ]_vars

\* C29: a worker that leaves the processing of an arrival leaves the device
\* out of the active set, whatever the toggle and the write returned; the
\* active set is empty whenever every worker is idle; an arrival is dropped as
\* 'already processing' only while another worker is inside the processing of
\* an arrival of the device
C29_ActiveSetCleanedUp ==
    [][ /\ \A w \in Workers :
            /\ Takes(w, "process_usb_event")
               => event[w].instance_id \notin active_devices'
            /\ (Takes(w, "process_event") /\ op'.result = "already processing")
               => \E v \in Workers \ {w} : Inside(v, event[w].instance_id)
        /\ (\A w \in Workers : pc'[w] = "get") => active_devices' = {} ]_vars

\* a worker has left the processing of an arrival after disable failed and
\* the write failed, and every worker is idle
C29_Witness ==
    /\ op.name = "process_usb_event"
    /\ op.toggled = <<FALSE>>
    /\ op.result = "OSError"
    /\ \A w \in Workers : pc[w] = "get"
    /\ active_devices = {}

\* an arrival is processed after an earlier arrival of the device was
C29_WitnessLaterArrival ==
    /\ op.name = "process_event"
    /\ op.result = "inserted"
    /\ op.id = "USB1"
    /\ get(svc_cache, "USB1").status = "locked"
    /\ active_devices = {"USB1"}
    /\ delivered = 2


(***************************************************************************)
(* Shutdown (under SpecStop)                                               *)
(***************************************************************************)
\* every worker thread has left its loop
WorkersExited == \A w \in Workers : pc[w] = "exited"

\* a step of the first loop of _shutdown_workers hands nothing to a worker:
\* it drops the head of the queue, or finds the queue empty and ends the loop
DrainDiscards ==
    /\ pc' = pc
    /\ event' = event
    /\ op'.toggle = "none"
    /\ svc_cache' = svc_cache
    /\ ledger_file' = ledger_file
    /\ IF event_queue = <<>>
       THEN stop_pc' = "put" /\ event_queue' = <<>>
       ELSE stop_pc' = "drain" /\ event_queue' = Tail(event_queue)

\* C30: once stop is called, stop returns and every worker leaves its loop,
\* wherever the worker was; the events the drain of stop finds in the queue
\* are dropped, none is handed to a worker, and the sentinels are put only
\* once the drain has found the queue empty
C30_ShutdownTerminates ==
    /\ stop_event ~> (stop_pc = "done" /\ WorkersExited)
    /\ [][op'.name = "shutdown_drain" => DrainDiscards]_vars

\* stop has returned and both workers have exited, the last of them after
\* finishing the arrival it was processing; only the sentinels are queued
C30_Witness ==
    /\ stop_pc = "done"
    /\ WorkersExited
    /\ delivered = 2
    /\ get(svc_cache, "USB1").status = "locked"
    /\ Len(event_queue) = WorkerCount
    /\ op.name = "process_usb_event"

\* stop is called while a worker is processing an event and another event is
\* queued
C30_WitnessProcessing ==
    /\ op.name = "stop"
    /\ \E w \in Workers : pc[w] = "process_usb_event"
    /\ event_queue # <<>>

\* stop is called while both workers are blocked on the empty queue
C30_WitnessBlocked ==
    /\ op.name = "stop"
    /\ \A w \in Workers : pc[w] = "get"
    /\ event_queue = <<>>

\* the drain drops an event while a worker is about to take one off the queue
C30_WitnessAboutToDequeue ==
    /\ op.name = "shutdown_drain"
    /\ op.result = "discarded"
    /\ \E w \in Workers : pc[w] = "get"
    /\ event_queue # <<>>

\* a worker exits on a sentinel
C30_WitnessSentinel ==
    /\ op.name = "worker_loop"
    /\ op.result = "stop"
    /\ \E w \in Workers : pc[w] = "exited"

\* join times out: stop returns before a worker has exited
C30_WitnessJoinTimeout ==
    /\ op.name = "shutdown_join"
    /\ op.result = "timeout"
    /\ stop_pc = "done"

(***************************************************************************)
(* Failures of the ledger write, and the two stores over one file          *)
(***************************************************************************)
\* C31: when the write of the ledger file fails while a worker records the
\* status of a device (after an arrival or a removal), the worker stays in
\* its loop and is ready for the next event, the worker that had put the
\* device into the active set has taken it out, the service's store holds the
\* new status with the time of the call, and the file is as it was
C31_WriteFailureAbsorbed ==
    [][ \A w \in Workers :
          LET id == event[w].instance_id
          IN  (/\ Takes(w, "process_usb_event") \/ Takes(w, "handle_usb_removal")
               /\ op'.result = "OSError")
              => /\ pc'[w] = loop_check(stop_event)
                 /\ event'[w] = NoEvent
                 /\ pc[w] = "process_usb_event" => id \notin active_devices'
                 /\ get(svc_cache', id).status
                    = (IF pc[w] = "process_usb_event" THEN "locked" ELSE "removed")
                 /\ get(svc_cache', id).updated_at = now
                 /\ ledger_file' = ledger_file ]_vars

\* the write failed after an arrival: the store holds 'locked', the file
\* holds nothing for the device
C31_Witness ==
    /\ op.name = "process_usb_event"
    /\ op.result = "OSError"
    /\ get(svc_cache, op.id).status = "locked"
    /\ ledger_file[op.id] = NoState
    /\ \A w \in Workers : pc[w] = "get"
    /\ active_devices = {}

\* a worker has taken a later event after such a failure
C31_WitnessLaterEvent ==
    /\ op.name = "worker_loop"
    /\ op.result = "got"
    /\ op.id = "USB2"
    /\ get(svc_cache, "USB1").status = "locked"
    /\ ledger_file["USB1"] = NoState

\* the later event is recorded and its write carries the lagging record
C31_WitnessCaughtUp ==
    /\ op.name = "process_usb_event"
    /\ op.result = "locked"
    /\ op.id = "USB2"
    /\ get(svc_cache, "USB1").status = "removed"
    /\ ledger_file["USB1"].status = "removed"
    /\ ledger_file["USB2"].status = "locked"

\* a step of the device window: one of its handlers, or its periodic reload
WindowStep ==
    op'.name \in {"window_handle_usb_event", "handle_lock", "handle_unlock",
                  "sync_external_store"}

\* C33: the device window's store only reads the ledger file: no step of the
\* window changes the file, hence none changes the record the file holds for
\* a device other than the one the step is about
C33_ObserverOnlyReads ==
    [][ WindowStep =>
          /\ ledger_file' = ledger_file
          /\ \A id \in Ids \ {op'.id} : ledger_file'[id] = ledger_file[id] ]_vars

\* the second half of C33 alone: a write of the window's store leaves the
\* records of the other devices as the file holds them
C33_RecordNotReverted ==
    [][ WindowStep =>
          \A id \in Ids \ {op'.id} : ledger_file'[id] = ledger_file[id] ]_vars

\* the device was unlocked through the window in this session, less than
\* RECENT_UNLOCK_SECONDS ago, and the file holds the window's record
ManuallyUnlocked(id) ==
    /\ get(win_cache, id).status = "unlocked"
    /\ get(win_cache, id).updated_at >= 1
    /\ now - get(win_cache, id).updated_at < RECENT_UNLOCK_SECONDS
    /\ ledger_file[id] = get(win_cache, id)

\* C34: a worker of the service that takes an arrival, synthetic or not, of a
\* device unlocked through the window within the grace window drops it: no
\* disable call, and the file keeps the device as 'unlocked'
C34_UnlockSurvivesArrival ==
    [][ \A w \in Workers :
          LET e == event[w]
          IN  (/\ Takes(w, "process_event")
               /\ e.event_type = "arrival"
               /\ e.instance_id # ""
               /\ ManuallyUnlocked(e.instance_id))
              => /\ DropsEvent(w)
                 /\ ledger_file'[e.instance_id].status = "unlocked" ]_vars

\* the end of the scenario of C34: the service has disabled and recorded as
\* 'locked' a device the window holds as unlocked within the grace window
C34_Relocked ==
    ~ (/\ op.name = "process_usb_event"
       /\ op.toggled = <<TRUE>>
       /\ get(win_cache, op.id).status = "unlocked"
       /\ get(win_cache, op.id).updated_at >= 1
       /\ now - get(win_cache, op.id).updated_at < RECENT_UNLOCK_SECONDS
       /\ ledger_file[op.id].status = "locked")

(***************************************************************************)
(* The lockout deadline and the counter (under SpecPin)                    *)
(***************************************************************************)
\* the step contains a verify_pin call that ended in a mismatch: a
\* verify_pin call, or a set_pin call whose current PIN was refused
MismatchStep ==
    \/ op'.name = "verify_pin" /\ op'.result = "PinValidationError"
    \/ /\ op'.name = "set_pin"
       /\ op'.cur # None
       /\ WellFormed(op'.pin)
       /\ verify_pin_outcome(pin_file, op'.cur, now, config).result
          = "PinValidationError"

C35_WitnessBelowLimit ==
    /\ IsCall("verify_pin")
    /\ op.result = "PinValidationError"
    /\ pin_file.failed_attempts = 1
    /\ pin_file.lock_until > 0
    /\ pin_file.lock_until <= now
    /\ pin_file.lock_until = before.data.lock_until

\* C37: the stored record always has 0 <= failed_attempts <
\* pin_attempt_limit
C37_CounterBelowLimit ==
    /\ pin_file.failed_attempts >= 0
    /\ pin_file.failed_attempts < Limit

\* a mismatch has brought the counter to one below the limit
C37_Witness ==
    /\ IsCall("verify_pin")
    /\ op.result = "PinValidationError"
    /\ Limit = 2
    /\ pin_file.failed_attempts = Limit - 1

\* with a limit of 1 the first mismatch starts the lockout and the counter
\* stays at 0
C37_WitnessLimitOne ==
    /\ IsCall("verify_pin")
    /\ op.result = "PinValidationError"
    /\ Limit = 1
    /\ pin_file.failed_attempts = 0
    /\ pin_file.lock_until > now

(***************************************************************************)
(* Restart (under SpecRestart)                                             *)
(***************************************************************************)
\* C40: constructing a PinManager over an existing store file leaves the
\* file as it was: the PIN set last still verifies and, when it is not the
\* default PIN, the default PIN does not; failed_attempts and lock_until
\* keep their stored values; and the call that follows the construction
\* ends as it would have ended on the record stored before it
C40_RecordSurvivesRestart ==
    [][ /\ op'.name = "construct" =>
            /\ pin_file' = pin_file
            /\ PinStoreRecord_verify(pin_file'.pin, last_set)
            /\ last_set # DefaultPin
               => ~ PinStoreRecord_verify(pin_file'.pin, DefaultPin)
            /\ pin_file'.failed_attempts = pin_file.failed_attempts
            /\ pin_file'.lock_until = pin_file.lock_until
        /\ (op.name = "construct" /\ op'.name = "verify_pin") =>
            op'.result
            = verify_pin_outcome(before.data, op'.pin, now, config).result
        /\ (op.name = "construct" /\ op'.name = "get_status") =>
            op'.result
            = (IF before.data.lock_until > now THEN "locked" ELSE "open") ]_vars

\* a restart with a changed PIN and one failed attempt on record
C40_Witness ==
    /\ op.name = "construct"
    /\ last_set = Pin1234
    /\ before.data.failed_attempts = 1
    /\ pin_file = before.data

\* a restart during a lockout
C40_WitnessLockedOut ==
    /\ op.name = "construct"
    /\ before.data.lock_until > now
    /\ pin_file.lock_until = before.data.lock_until

(***************************************************************************)
(* The PIN cache (under SpecCache)                                         *)
(***************************************************************************)
\* C36: when get_cached_pin(max_age) returns a PIN, a successful verify_pin
\* has cached that PIN no more than max_age seconds earlier and no set_pin
\* has succeeded since
C36_CachedPinFresh ==
    (IsCall("get_cached_pin") /\ op.result = "returned")
    => /\ cache_hist.written
       /\ cache_hist.pin = op.pin
       /\ now - cache_hist.ts <= cache_hist.max_age

\* the old PIN is returned after the PIN has been changed
C36_StalePinReturned ==
    /\ IsCall("get_cached_pin")
    /\ op.result = "returned"
    /\ op.pin = DefaultPin
    /\ last_set = Pin1234
    /\ ~ PinStoreRecord_verify(pin_file.pin, op.pin)

(***************************************************************************)
(* Threads sharing a PinManager (under SpecThreads)                        *)
(***************************************************************************)
\* C38: as long as the threads have only verified wrong PINs, starting from
\* failed_attempts = 0 and no lockout: no failed attempt is lost (without a
\* lockout the stored counter is the number of calls that ended with
\* PinValidationError), at most pin_attempt_limit calls end with
\* PinValidationError, and once that many have, the lockout deadline is set
C38_VerifyAtomic ==
    conc_hist.only_wrong =>
        /\ conc_hist.mismatches <= Limit
        /\ pin_file.lock_until = 0 => pin_file.failed_attempts = conc_hist.mismatches
        /\ conc_hist.mismatches >= Limit => pin_file.lock_until > now

\* two wrong PINs were refused and the counter stands at one
C38_AttemptLost ==
    /\ conc_hist.only_wrong
    /\ conc_hist.mismatches = 2
    /\ \A t \in PinThreads : pin_threads[t].pc = "idle"
    /\ pin_file.failed_attempts = 1
    /\ pin_file.lock_until = 0

\* C39: once set_pin(new) has returned, the stored hash is that of the new
\* PIN: the new PIN verifies and no other PIN does, whatever the calls in
\* progress on the other thread do afterwards
C39_PinChangeKept ==
    last_set = Pin1234 => StoredPinVerifies(Pin1234)

\* after the PIN change the old PIN verifies again, every call being over
C39_PinChangeUndone ==
    /\ last_set = Pin1234
    /\ \A t \in PinThreads : pin_threads[t].pc = "idle"
    /\ PinStoreRecord_verify(pin_file.pin, DefaultPin)
    /\ ~ PinStoreRecord_verify(pin_file.pin, Pin1234)

(***************************************************************************)
(* Lock discipline (under SpecLocks)                                       *)
(***************************************************************************)
\* the locks a thread holds
HeldLocks(t) == {l \in Locks : lock_owner[l].thread = t}

\* the thread asks for a lock it cannot take now
Waits(t) ==
    /\ t \in LockThreads
    /\ lock_trace[t] # <<>>
    /\ Head(lock_trace[t]).kind = "acquire"
    /\ ~ CanAcquire(t, Head(lock_trace[t]).lock)

\* C32: a thread never holds two of the ledger locks, the credential-store
\* lock and the active-set lock at once; a thread about to make a toggle
\* call does not hold the active-set lock; and a thread waiting for a lock
\* waits for a thread that is not itself waiting, so that no set of
\* threads is deadlocked
C32_NoCrossLocking ==
    \A t \in LockThreads :
        /\ Cardinality(HeldLocks(t)) <= 1
        /\ (lock_trace[t] # <<>> /\ Head(lock_trace[t]).kind = "toggle")
           => "active" \notin HeldLocks(t)
        /\ Waits(t) => ~ Waits(lock_owner[Head(lock_trace[t]).lock].thread)

\* one worker is inside _persist, the other waits for the ledger lock, the
\* device window is inside PinManager._write
C32_Witness ==
    /\ lock_owner["ledger_svc"] = [thread |-> "worker1", count |-> 2]
    /\ Waits("worker2")
    /\ lock_owner["pin"].thread = "window"

\* one worker is about to make its toggle call while the other holds the
\* active-set lock
C32_WitnessToggle ==
    /\ lock_trace["worker1"] # <<>>
    /\ Head(lock_trace["worker1"]).kind = "toggle"
    /\ lock_owner["active"].thread = "worker2"

====
